---- MODULE Spec2Model ----
(***************************************************************************)
(* The in-memory chat server (src/unnamed/part_001): the session / room /  *)
(* permission state machine behind the socket.io handlers; and the login,  *)
(* create_room, join_room, chat message and share_file handlers of the     *)
(* MongoDB-backed server (src/server.js), which suspend at each database   *)
(* call.  The room membership lists, the bans and the ban timers of the    *)
(* file-backed server (src/unnamed/part_002) are modelled beside them.     *)
(*                                                                         *)
(* Conventions.                                                            *)
(*  - A JavaScript value that may be null/undefined is a sequence of       *)
(*    length 0 (None) or 1 (Some(v)), so no string is reserved for null.   *)
(*  - Time is counted in minutes (the code's 60 * 1000 ms); every duration *)
(*    the code computes is a whole number of minutes.                      *)
(*  - Display-only fields (timestamp, theme, emoji) are left out of the    *)
(*    records; a system line keeps a tag and the user it names.            *)
(*  - `cmd` is the command the server handled last and `out` the events    *)
(*    that handler emitted, in emission order.                             *)
(***************************************************************************)
EXTENDS Integers, Sequences, FiniteSets, TLC

VARIABLES
    live,            \* socket ids of the open connections
    currentUser,     \* per-connection closure variable (None = null)
    currentRoom,     \* per-connection closure variable (None = null)
    userRank,        \* per-connection closure variable
    joined,          \* socket.io adapter: the rooms each socket has joined
    users,           \* memoryStore.users     username -> {password, rank}
    rooms,           \* memoryStore.rooms     name -> {password, isDefault, messages}
    sessions,        \* memoryStore.sessions  socket id -> {username, rank, roomName}
    sessionOrder,    \* memoryStore.sessions  the Map's iteration (insertion) order
    bans,            \* memoryStore.bans      room -> (username -> {expiresAt, bannedBy})
    mutes,           \* memoryStore.mutes     muteKey -> {roomName, expiresAt, mutedBy}
    privateMessages, \* memoryStore.privateMessages
    now,             \* Date.now(), in minutes since start
    cmd,             \* the last command handled
    out,             \* the events the last handler emitted
    isMongoConnected,\* server.js: the MongoDB connection is up
    User,            \* server.js: the User collection   username -> {password, rank}
    Room,            \* server.js: the Room collection   name -> {password}
    Session,         \* server.js: the Session collection, documents {socketId, username, roomName}
    awaiting,        \* server.js: per connection, the handler suspended at an await
    Message,         \* server.js: the Message collection, in the order of the timestamps
    fileUsers,       \* part_002: users         username -> password
    fileRooms,       \* part_002: rooms         name -> {password, members, messages, isDefault, bans}
    userSessions,    \* part_002: userSessions  socket id -> username
    userRooms,       \* part_002: userRooms     socket id -> room name
    banTimers        \* part_002: the pending setTimeout callbacks of ban_user

vars == <<live, currentUser, currentRoom, userRank, joined, users, rooms,
          sessions, sessionOrder, bans, mutes, privateMessages, now, cmd, out,
          isMongoConnected, User, Room, Session, awaiting, Message,
          fileUsers, fileRooms, userSessions, userRooms, banTimers>>

closure == <<currentUser, currentRoom, userRank>>
store == <<users, rooms, sessions, sessionOrder, bans, mutes, privateMessages>>
mongo == <<isMongoConnected, User, Room, Session, awaiting, Message>>
file == <<fileUsers, fileRooms, userSessions, userRooms, banTimers>>

None == <<>>
Some(v) == <<v>>

(***************************************************************************)
(* Configuration and the universe of inputs                                *)
(***************************************************************************)
OWNER_USERNAME == "Pi_Kid71"
ADMIN_PASSWORD == "secret"   \* process.env.ADMIN_PASSWORD, set by the deployment
DefaultRoom == "Main"

Ranks == {"owner", "admin", "moderator", "vip", "member"}

ConnOrder == <<"c1", "c2", "c3">>          \* socket ids, in connection order
Conns == {ConnOrder[i] : i \in 1..Len(ConnOrder)}

HistoryCap == 100       \* capacity of a room's message history
PrivateCap == 100       \* capacity of the private message history
DefaultMinutes == 10    \* the default sanction duration

(***************************************************************************)
(* RANK LEVELS AND PERMISSIONS                                             *)
(***************************************************************************)
RANK_LEVELS ==
    [owner |-> 1, admin |-> 2, moderator |-> 3, vip |-> 4, member |-> 5]

getRankLevel(rank) ==
    IF rank \in DOMAIN RANK_LEVELS THEN RANK_LEVELS[rank] ELSE 5

PERMISSIONS ==
    [owner     |-> [level |-> 1, canBan |-> TRUE,  canUnban |-> TRUE,  canMute |-> TRUE,
                    canDeleteRoom |-> TRUE,  canClear |-> TRUE,
                    canGrant |-> {"admin", "moderator", "vip", "member"},
                    canUseEffects |-> TRUE,  canUpload |-> TRUE, canVoice |-> TRUE,
                    canVideo |-> TRUE,  canSeeAllPrivate |-> TRUE],
     admin     |-> [level |-> 2, canBan |-> TRUE,  canUnban |-> TRUE,  canMute |-> TRUE,
                    canDeleteRoom |-> TRUE,  canClear |-> TRUE,
                    canGrant |-> {"moderator", "vip", "member"},
                    canUseEffects |-> TRUE,  canUpload |-> TRUE, canVoice |-> TRUE,
                    canVideo |-> TRUE,  canSeeAllPrivate |-> FALSE],
     moderator |-> [level |-> 3, canBan |-> TRUE,  canUnban |-> FALSE, canMute |-> TRUE,
                    canDeleteRoom |-> FALSE, canClear |-> TRUE,
                    canGrant |-> {},
                    canUseEffects |-> FALSE, canUpload |-> TRUE, canVoice |-> TRUE,
                    canVideo |-> TRUE,  canSeeAllPrivate |-> FALSE],
     vip       |-> [level |-> 4, canBan |-> FALSE, canUnban |-> FALSE, canMute |-> FALSE,
                    canDeleteRoom |-> FALSE, canClear |-> FALSE,
                    canGrant |-> {},
                    canUseEffects |-> FALSE, canUpload |-> TRUE, canVoice |-> TRUE,
                    canVideo |-> TRUE,  canSeeAllPrivate |-> FALSE],
     member    |-> [level |-> 5, canBan |-> FALSE, canUnban |-> FALSE, canMute |-> FALSE,
                    canDeleteRoom |-> FALSE, canClear |-> FALSE,
                    canGrant |-> {},
                    canUseEffects |-> FALSE, canUpload |-> FALSE, canVoice |-> TRUE,
                    canVideo |-> FALSE, canSeeAllPrivate |-> FALSE]]

\* PERMISSIONS[userRank] || PERMISSIONS.member
permissionsOf(rank) ==
    IF rank \in DOMAIN PERMISSIONS THEN PERMISSIONS[rank] ELSE PERMISSIONS["member"]

(***************************************************************************)
(* Sanction helpers                                                        *)
(***************************************************************************)
\* `${username}-${roomName}`
muteKeyOf(username, roomName) == username \o "-" \o roomName

\* Faulty variant of isUserMuted: the expiry comparison is reversed.
isUserMuted_Reversed(username, roomName) ==
    LET muteKey == muteKeyOf(username, roomName)
    IN  /\ muteKey \in DOMAIN mutes
        /\ now > mutes[muteKey].expiresAt

\* Faulty variant of isUserMuted: a stored mute never runs out.
isUserMuted_NeverExpires(username, roomName) ==
    muteKeyOf(username, roomName) \in DOMAIN mutes

\* The value isUserMuted returns.
isUserMuted(username, roomName) ==
    LET muteKey == muteKeyOf(username, roomName)
    IN  /\ muteKey \in DOMAIN mutes
        /\ now < mutes[muteKey].expiresAt

\* The store isUserMuted leaves behind: an expired entry is deleted on access.
mutesAfterCheck(m, username, roomName) ==
    LET muteKey == muteKeyOf(username, roomName)
    IN  IF muteKey \in DOMAIN m /\ ~(now < m[muteKey].expiresAt)
        THEN [k \in DOMAIN m \ {muteKey} |-> m[k]]
        ELSE m

\* A duration string is the sequence of its characters.
Digits == {"0", "1", "2", "3", "4", "5", "6", "7", "8", "9"}
DigitValue(ch) ==
    CASE ch = "0" -> 0 [] ch = "1" -> 1 [] ch = "2" -> 2 [] ch = "3" -> 3
      [] ch = "4" -> 4 [] ch = "5" -> 5 [] ch = "6" -> 6 [] ch = "7" -> 7
      [] ch = "8" -> 8 [] ch = "9" -> 9

\* durationStr.match(/^(\d+)([mhd])$/)
durationMatches(s, units) ==
    /\ Len(s) >= 2
    /\ s[Len(s)] \in units
    /\ \A i \in 1..(Len(s) - 1) : s[i] \in Digits

RECURSIVE parseIntDigits(_)
parseIntDigits(s) ==
    IF s = <<>> THEN 0
    ELSE 10 * parseIntDigits(SubSeq(s, 1, Len(s) - 1)) + DigitValue(s[Len(s)])

\* parseDuration, in minutes
parseDuration(durationStr) ==
    IF ~durationMatches(durationStr, {"m", "h", "d"}) THEN DefaultMinutes
    ELSE LET amount == parseIntDigits(SubSeq(durationStr, 1, Len(durationStr) - 1))
             unit == durationStr[Len(durationStr)]
         IN  CASE unit = "m" -> amount
               [] unit = "h" -> amount * 60
               [] unit = "d" -> amount * 24 * 60

\* The duration ban_user computes inline, in minutes: the 'm' unit has no branch.
banDuration(duration) ==
    IF ~durationMatches(duration, {"h", "m", "d"}) THEN DefaultMinutes
    ELSE LET val == parseIntDigits(SubSeq(duration, 1, Len(duration) - 1))
             unit == duration[Len(duration)]
         IN  CASE unit = "h" -> val * 60
               [] unit = "d" -> val * 24 * 60
               [] OTHER -> DefaultMinutes

(***************************************************************************)
(* Emitting events                                                         *)
(***************************************************************************)
Event(c, ev, data) == [to |-> c, ev |-> ev, data |-> data]

\* socket.emit(ev, data)
ToSocket(c, ev, data) == <<Event(c, ev, data)>>

RECURSIVE ToEach(_, _, _, _)
ToEach(i, targets, ev, data) ==
    IF i > Len(ConnOrder) THEN <<>>
    ELSE (IF ConnOrder[i] \in targets THEN <<Event(ConnOrder[i], ev, data)>> ELSE <<>>)
         \o ToEach(i + 1, targets, ev, data)

\* io.to(room).emit(ev, data), with j the adapter's membership at that moment
ToRoom(j, room, ev, data) ==
    ToEach(1, {c \in live : room \in j[c]}, ev, data)

\* socket.broadcast.to(room).emit(ev, data)
BroadcastToRoom(j, sender, room, ev, data) ==
    ToEach(1, {c \in live \ {sender} : room \in j[c]}, ev, data)

\* io.emit(ev, data)
ToAll(ev, data) == ToEach(1, live, ev, data)

\* io.to(socketId).emit(ev, data)
ToId(sid, ev, data) == ToEach(1, {sid} \cap live, ev, data)

\* Did the last handler emit event ev to socket c?
Emitted(c, ev) == \E i \in 1..Len(out) : out[i].to = c /\ out[i].ev = ev

ErrorTo(c, message) == ToSocket(c, "error", [message |-> message])

(***************************************************************************)
(* Store helpers                                                           *)
(***************************************************************************)
\* Array.from(sessions.values()).filter(s => s.roomName === name).length
memberCount(sess, name) ==
    Cardinality({sid \in DOMAIN sess : sess[sid].roomName = Some(name)})

\* Map.set
MapSet(m, k, v) == [x \in DOMAIN m \cup {k} |-> IF x = k THEN v ELSE m[x]]

\* Faulty variant of MapDelete: deleting an absent key empties the map.
MapDelete_AbsentKeyClears(m, k) ==
    IF k \in DOMAIN m THEN [x \in DOMAIN m \ {k} |-> m[x]] ELSE <<>>

\* Map.delete
MapDelete(m, k) == [x \in DOMAIN m \ {k} |-> m[x]]

\* Faulty variant of pushBounded: the oldest message is never dropped.
pushBounded_NoShift(messages, m, cap) ==
    LET pushed == Append(messages, m)
    IN  IF Len(pushed) > cap THEN pushed ELSE pushed

\* messages.push(m); if (messages.length > 100) messages.shift()
pushBounded(messages, m, cap) ==
    LET pushed == Append(messages, m)
    IN  IF Len(pushed) > cap THEN Tail(pushed) ELSE pushed

\* room.messages.push(m) with the shift, when the room exists
roomsAfterPush(rs, roomName, m) ==
    IF roomName \in DOMAIN rs
    THEN [rs EXCEPT ![roomName].messages = pushBounded(@, m, HistoryCap)]
    ELSE rs

\* sessions.set(sid, v): a key that is already present keeps its place in the
\* Map's iteration order, a new key goes last.
orderAfterSet(order, sid) ==
    IF \E i \in 1..Len(order) : order[i] = sid THEN order ELSE Append(order, sid)

\* sessions.delete(sid)
orderAfterDelete(order, sid) == SelectSeq(order, LAMBDA x : x # sid)

\* for (const [sid, session] of sessions) { if (match) { found = sid; break; } }
\* None when no session matches.
firstSession(order, matching) ==
    LET hits == SelectSeq(order, LAMBDA x : x \in matching)
    IN  IF hits = <<>> THEN None ELSE Some(Head(hits))

SystemMsg(tag, who) ==
    [username |-> "System", message |-> tag, about |-> who, rank |-> "system"]

Init ==
    /\ live = {}
    /\ currentUser = [c \in Conns |-> None]
    /\ currentRoom = [c \in Conns |-> None]
    /\ userRank = [c \in Conns |-> "member"]
    /\ joined = [c \in Conns |-> {}]
    /\ users = (OWNER_USERNAME :> [password |-> ADMIN_PASSWORD, rank |-> "owner"])
               @@ ("admin" :> [password |-> ADMIN_PASSWORD, rank |-> "admin"])
    /\ rooms = (DefaultRoom :> [password |-> "", isDefault |-> TRUE, messages |-> <<>>])
    /\ sessions = <<>>
    /\ sessionOrder = <<>>
    /\ bans = <<>>
    /\ mutes = <<>>
    /\ privateMessages = <<>>
    /\ now = 0
    /\ cmd = [op |-> "start", conn |-> "", arg |-> <<>>]
    /\ out = <<>>
    /\ isMongoConnected = FALSE
    /\ User = <<>>
    /\ Room = <<>>
    /\ Session = {}
    /\ awaiting = [c \in Conns |-> None]
    /\ Message = <<>>
    /\ fileUsers = <<>>
    /\ fileRooms = (DefaultRoom :> [password |-> "", members |-> <<>>, messages |-> <<>>,
                                    isDefault |-> TRUE, bans |-> <<>>])
    /\ userSessions = <<>>
    /\ userRooms = <<>>
    /\ banTimers = <<>>

Command(op, c, arg) == [op |-> op, conn |-> c, arg |-> arg]

(***************************************************************************)
(* Connection life cycle                                                   *)
(***************************************************************************)
\* io.on('connection'): a new socket with fresh closure variables.  A socket
\* id is free again once its socket has disconnected.
Connect(c) ==
    /\ c \notin live
    /\ live' = live \cup {c}
    /\ currentUser' = [currentUser EXCEPT ![c] = None]
    /\ currentRoom' = [currentRoom EXCEPT ![c] = None]
    /\ userRank' = [userRank EXCEPT ![c] = "member"]
    /\ joined' = [joined EXCEPT ![c] = {}]
    /\ cmd' = Command("connection", c, <<>>)
    /\ out' = <<>>
    /\ UNCHANGED <<store, now>>

\* socket.on('disconnect'); socket.io has already taken the socket out of every
\* room when the handler runs.
Disconnect(c) ==
    /\ c \in live
    /\ live' = live \ {c}
    /\ joined' = [joined EXCEPT ![c] = {}]
    /\ sessions' = MapDelete(sessions, c)
    /\ sessionOrder' = orderAfterDelete(sessionOrder, c)
    /\ cmd' = Command("disconnect", c, <<>>)
    /\ out' = IF currentUser[c] # None /\ currentRoom[c] # None
              THEN LET roomName == currentRoom[c][1]
                       targets == {x \in live \ {c} : roomName \in joined[x]}
                   IN  ToEach(1, targets, "user_left",
                              [username |-> currentUser[c][1], rank |-> userRank[c],
                               members |-> 0])
                       \o ToEach(1, targets, "chat message",
                                 SystemMsg("disconnected", currentUser[c][1]))
              ELSE <<>>
    /\ UNCHANGED <<closure, users, rooms, bans, mutes, privateMessages, now>>

\* The disconnect handler run once more for a socket that has already
\* disconnected: its closure variables are as the first run left them.
DisconnectAgain(c) ==
    /\ c \notin live
    /\ sessions' = MapDelete(sessions, c)
    /\ sessionOrder' = orderAfterDelete(sessionOrder, c)
    /\ cmd' = Command("disconnect again", c, <<>>)
    /\ out' = IF currentUser[c] # None /\ currentRoom[c] # None
              THEN LET roomName == currentRoom[c][1]
                       targets == {x \in live : roomName \in joined[x]}
                   IN  ToEach(1, targets, "user_left",
                              [username |-> currentUser[c][1], rank |-> userRank[c],
                               members |-> 0])
                       \o ToEach(1, targets, "chat message",
                                 SystemMsg("disconnected", currentUser[c][1]))
              ELSE <<>>
    /\ UNCHANGED <<live, joined, closure, users, rooms, bans, mutes, privateMessages, now>>

\* The clock advances between two commands.
Tick ==
    /\ now' = now + 1
    /\ cmd' = Command("tick", "", <<>>)
    /\ out' = <<>>
    /\ UNCHANGED <<live, closure, joined, store>>

(***************************************************************************)
(* AUTHENTICATION                                                          *)
(***************************************************************************)
\* Faulty variant of loginRank: the owner case does not look at the username.
loginRank_SecretMakesOwner(username, password) ==
    IF password = ADMIN_PASSWORD THEN Some("owner")
    ELSE IF username = "admin" /\ password = ADMIN_PASSWORD THEN Some("admin")
    ELSE IF username \in DOMAIN users /\ users[username].password = password
         THEN Some(users[username].rank)
    ELSE IF username \notin DOMAIN users THEN Some("member")
    ELSE None

\* The rank the login handler signs the caller in with, None when it answers
\* 'Invalid credentials'.
loginRank(username, password) ==
    IF username = OWNER_USERNAME /\ password = ADMIN_PASSWORD THEN Some("owner")
    ELSE IF username = "admin" /\ password = ADMIN_PASSWORD THEN Some("admin")
    ELSE IF username \in DOMAIN users /\ users[username].password = password
         THEN Some(users[username].rank)
    ELSE IF username \notin DOMAIN users THEN Some("member")
    ELSE None

\* Does the login handler create the account?
loginCreates(username, password) ==
    /\ ~(username = OWNER_USERNAME /\ password = ADMIN_PASSWORD)
    /\ ~(username = "admin" /\ password = ADMIN_PASSWORD)
    /\ username \notin DOMAIN users

Login(c, username, password) ==
    /\ c \in live
    /\ cmd' = Command("login", c, [username |-> username, password |-> password])
    /\ IF username = "" \/ password = ""
       THEN /\ out' = ToSocket(c, "auth_error", [message |-> "Username and password required"])
            /\ UNCHANGED <<live, closure, joined, store, now>>
       ELSE IF loginRank(username, password) = None
       THEN /\ out' = ToSocket(c, "auth_error", [message |-> "Invalid credentials"])
            /\ UNCHANGED <<live, closure, joined, store, now>>
       ELSE LET rank == loginRank(username, password)[1]
            IN  /\ users' = IF loginCreates(username, password)
                            THEN MapSet(users, username,
                                        [password |-> password, rank |-> "member"])
                            ELSE users
                /\ currentUser' = [currentUser EXCEPT ![c] = Some(username)]
                /\ userRank' = [userRank EXCEPT ![c] = rank]
                /\ sessions' = MapSet(sessions, c,
                                      [username |-> username, rank |-> rank,
                                       roomName |-> None])
                /\ sessionOrder' = orderAfterSet(sessionOrder, c)
                /\ out' = ToSocket(c, "auth_success", [username |-> username, rank |-> rank])
                /\ UNCHANGED <<live, currentRoom, joined, rooms, bans, mutes,
                               privateMessages, now>>

\* The reason the register handler refuses, None when it accepts.  Lengths are
\* those of the strings: a username or password is given with its length.
registerError_NoConflictCheck(username, usernameLen, password, passwordLen) ==
    IF username = "" \/ password = "" THEN Some("Username and password required")
    ELSE IF usernameLen < 3 THEN Some("Username must be at least 3 characters")
    ELSE IF passwordLen < 4 THEN Some("Password must be at least 4 characters")
    ELSE IF username = OWNER_USERNAME \/ username = "admin" THEN Some("Username reserved")
    ELSE None
registerError(username, usernameLen, password, passwordLen) ==
    IF username = "" \/ password = "" THEN Some("Username and password required")
    ELSE IF usernameLen < 3 THEN Some("Username must be at least 3 characters")
    ELSE IF passwordLen < 4 THEN Some("Password must be at least 4 characters")
    ELSE IF username = OWNER_USERNAME \/ username = "admin" THEN Some("Username reserved")
    ELSE IF username \in DOMAIN users THEN Some("Username already exists")
    ELSE None

Register(c, username, password) ==
    /\ c \in live
    /\ cmd' = Command("register", c, [username |-> username, password |-> password])
    /\ LET err == registerError(username, Len(username), password, Len(password))
       IN  IF err # None
           THEN /\ out' = ToSocket(c, "auth_error", [message |-> err[1]])
                /\ UNCHANGED <<live, closure, joined, store, now>>
           ELSE /\ users' = MapSet(users, username,
                                   [password |-> password, rank |-> "member"])
                /\ sessions' = MapSet(sessions, c,
                                      [username |-> username, rank |-> "member",
                                       roomName |-> None])
                /\ sessionOrder' = orderAfterSet(sessionOrder, c)
                /\ currentUser' = [currentUser EXCEPT ![c] = Some(username)]
                /\ userRank' = [userRank EXCEPT ![c] = "member"]
                /\ out' = ToSocket(c, "auth_success",
                                   [username |-> username, rank |-> "member"])
                /\ UNCHANGED <<live, currentRoom, joined, rooms, bans, mutes,
                               privateMessages, now>>

\* Faulty variant of Logout: the closure's currentUser and currentRoom are kept.
Logout_KeepsUser(c) ==
    /\ c \in live
    /\ cmd' = Command("logout", c, <<>>)
    /\ IF currentUser[c] # None
       THEN /\ joined' = IF currentRoom[c] # None
                         THEN [joined EXCEPT ![c] = @ \ {currentRoom[c][1]}]
                         ELSE joined
            /\ sessions' = MapDelete(sessions, c)
            /\ sessionOrder' = orderAfterDelete(sessionOrder, c)
       ELSE UNCHANGED <<joined, sessions, sessionOrder>>
    /\ out' = ToSocket(c, "logged_out", <<>>)
    /\ UNCHANGED <<live, closure, users, rooms, bans, mutes, privateMessages, now>>

Logout(c) ==
    /\ c \in live
    /\ cmd' = Command("logout", c, <<>>)
    /\ IF currentUser[c] # None
       THEN /\ joined' = IF currentRoom[c] # None
                         THEN [joined EXCEPT ![c] = @ \ {currentRoom[c][1]}]
                         ELSE joined
            /\ sessions' = MapDelete(sessions, c)
            /\ sessionOrder' = orderAfterDelete(sessionOrder, c)
       ELSE UNCHANGED <<joined, sessions, sessionOrder>>
    /\ out' = ToSocket(c, "logged_out", <<>>)
    /\ currentUser' = [currentUser EXCEPT ![c] = None]
    /\ currentRoom' = [currentRoom EXCEPT ![c] = None]
    /\ UNCHANGED <<live, userRank, users, rooms, bans, mutes, privateMessages, now>>

(***************************************************************************)
(* ROOMS                                                                   *)
(***************************************************************************)
\* The rooms_list payload of get_rooms: one entry per room of the store.
roomsList ==
    [name \in DOMAIN rooms |->
        [hasPassword |-> rooms[name].password # "",
         members |-> memberCount(sessions, name),
         isDefault |-> rooms[name].isDefault]]

GetRooms(c) ==
    /\ c \in live
    /\ cmd' = Command("get_rooms", c, <<>>)
    /\ out' = ToSocket(c, "rooms_list", roomsList)
    /\ UNCHANGED <<live, closure, joined, store, now>>

\* !roomName || roomName.trim() === ''
BlankNames == {"", " "}
isBlank(roomName) == roomName \in BlankNames

\* if (session) session.roomName = value
sessionsWithRoom(sess, sid, value) ==
    IF sid \in DOMAIN sess THEN [sess EXCEPT ![sid].roomName = value] ELSE sess

CreateRoom(c, roomName, password) ==
    /\ c \in live
    /\ cmd' = Command("create_room", c, [roomName |-> roomName, password |-> password])
    /\ IF currentUser[c] = None
       THEN /\ out' = ErrorTo(c, "Not authenticated")
            /\ UNCHANGED <<live, closure, joined, store, now>>
       ELSE IF isBlank(roomName)
       THEN /\ out' = ErrorTo(c, "Room name cannot be empty")
            /\ UNCHANGED <<live, closure, joined, store, now>>
       ELSE IF roomName \in DOMAIN rooms
       THEN /\ out' = ErrorTo(c, "Room already exists")
            /\ UNCHANGED <<live, closure, joined, store, now>>
       ELSE /\ rooms' = MapSet(rooms, roomName,
                               [password |-> password, isDefault |-> FALSE,
                                messages |-> <<>>])
            /\ joined' = [joined EXCEPT ![c] =
                             (IF currentRoom[c] # None THEN @ \ {currentRoom[c][1]} ELSE @)
                             \cup {roomName}]
            /\ currentRoom' = [currentRoom EXCEPT ![c] = Some(roomName)]
            /\ sessions' = sessionsWithRoom(sessions, c, Some(roomName))
            /\ out' = ToSocket(c, "joined_room",
                               [roomName |-> roomName, username |-> currentUser[c][1],
                                rank |-> userRank[c]])
                      \o ToRoom(joined', roomName, "user_joined",
                                [username |-> currentUser[c][1], rank |-> userRank[c],
                                 members |-> 1])
                      \o ToAll("room_created",
                               [name |-> roomName, hasPassword |-> password # ""])
            /\ UNCHANGED <<live, currentUser, userRank, users, sessionOrder, bans,
                           mutes, privateMessages, now>>

JoinRoom(c, roomName, password) ==
    /\ c \in live
    /\ cmd' = Command("join_room", c, [roomName |-> roomName, password |-> password])
    /\ IF currentUser[c] = None
       THEN /\ out' = ErrorTo(c, "Not authenticated")
            /\ UNCHANGED <<live, closure, joined, store, now>>
       ELSE IF roomName \notin DOMAIN rooms
       THEN /\ out' = ErrorTo(c, "Room does not exist")
            /\ UNCHANGED <<live, closure, joined, store, now>>
       ELSE IF rooms[roomName].password # "" /\ rooms[roomName].password # password
       THEN /\ out' = ErrorTo(c, "Incorrect password")
            /\ UNCHANGED <<live, closure, joined, store, now>>
       ELSE /\ joined' = [joined EXCEPT ![c] =
                             (IF currentRoom[c] # None THEN @ \ {currentRoom[c][1]} ELSE @)
                             \cup {roomName}]
            /\ currentRoom' = [currentRoom EXCEPT ![c] = Some(roomName)]
            /\ sessions' = sessionsWithRoom(sessions, c, Some(roomName))
            /\ out' = ToSocket(c, "joined_room",
                               [roomName |-> roomName, username |-> currentUser[c][1],
                                rank |-> userRank[c]])
                      \o ToSocket(c, "room_history",
                                  [messages |-> rooms[roomName].messages])
                      \o ToRoom(joined', roomName, "user_joined",
                                [username |-> currentUser[c][1], rank |-> userRank[c],
                                 members |-> memberCount(sessions', roomName)])
            /\ UNCHANGED <<live, currentUser, userRank, users, rooms, sessionOrder,
                           bans, mutes, privateMessages, now>>

\* Faulty variant of deletedOnLeave: the default room is not exempt.
deletedOnLeave_AnyRoom(roomName, members) == members = 0

\* Is the room deleted by the leave that left it with `members` members?
deletedOnLeave(roomName, members) == members = 0 /\ roomName # "Main"

LeaveRoom(c) ==
    /\ c \in live
    /\ cmd' = Command("leave_room", c, <<>>)
    /\ IF currentUser[c] = None \/ currentRoom[c] = None
       THEN /\ out' = <<>>
            /\ UNCHANGED <<live, closure, joined, store, now>>
       ELSE LET roomName == currentRoom[c][1]
                systemMsg == SystemMsg("left the room", currentUser[c][1])
                members == memberCount(sessions', roomName)
            IN  /\ sessions' = sessionsWithRoom(sessions, c, None)
                /\ joined' = [joined EXCEPT ![c] = @ \ {roomName}]
                /\ rooms' = IF deletedOnLeave(roomName, members)
                            THEN MapDelete(rooms, roomName)
                            ELSE roomsAfterPush(rooms, roomName, systemMsg)
                /\ out' = ToRoom(joined', roomName, "user_left",
                                 [username |-> currentUser[c][1], rank |-> userRank[c],
                                  members |-> members])
                          \o ToRoom(joined', roomName, "chat message", systemMsg)
                          \o (IF deletedOnLeave(roomName, members)
                              THEN ToAll("room_deleted", [name |-> roomName])
                              ELSE <<>>)
                /\ currentRoom' = [currentRoom EXCEPT ![c] = None]
                /\ UNCHANGED <<live, currentUser, userRank, users, sessionOrder, bans,
                               mutes, privateMessages, now>>

(***************************************************************************)
(* MESSAGES                                                                *)
(***************************************************************************)
ChatMessage(c, message) ==
    /\ c \in live
    /\ cmd' = Command("chat message", c, [message |-> message])
    /\ IF currentUser[c] = None \/ currentRoom[c] = None
       THEN /\ out' = <<>>
            /\ UNCHANGED <<live, closure, joined, store, now>>
       ELSE LET user == currentUser[c][1]
                room == currentRoom[c][1]
                messageData == [username |-> user, message |-> message,
                                about |-> "", rank |-> userRank[c]]
            IN  /\ mutes' = mutesAfterCheck(mutes, user, room)
                /\ IF isUserMuted(user, room)
                   THEN /\ out' = ToSocket(c, "system_message",
                                           [message |-> "You are muted and cannot send messages"])
                        /\ rooms' = rooms
                   ELSE /\ rooms' = roomsAfterPush(rooms, room, messageData)
                        /\ out' = BroadcastToRoom(joined, c, room, "chat message",
                                                  messageData)
                /\ UNCHANGED <<live, closure, joined, users, sessions, sessionOrder,
                               bans, privateMessages, now>>

ShareFile(c, fileName) ==
    /\ c \in live
    /\ cmd' = Command("share_file", c, [fileName |-> fileName])
    /\ IF currentUser[c] = None \/ currentRoom[c] = None
       THEN /\ out' = <<>>
            /\ UNCHANGED <<live, closure, joined, store, now>>
       ELSE LET room == currentRoom[c][1]
                messageData == [username |-> currentUser[c][1], message |-> "Shared file",
                                about |-> fileName, rank |-> userRank[c]]
            IN  /\ rooms' = roomsAfterPush(rooms, room, messageData)
                /\ out' = ToRoom(joined, room, "chat message", messageData)
                /\ UNCHANGED <<live, closure, joined, users, sessions, sessionOrder,
                               bans, mutes, privateMessages, now>>

(***************************************************************************)
(* PRIVATE MESSAGES                                                        *)
(***************************************************************************)
\* One private_message event per session of `order` that is in `targets`.
ToSessions(order, targets, data, adminView) ==
    LET hits == SelectSeq(order, LAMBDA sid : sid \in targets)
    IN  [i \in 1..Len(hits) |->
            Event(hits[i], "private_message",
                  [msg |-> data, adminView |-> adminView,
                   viewedBy |-> IF adminView THEN sessions[hits[i]].username ELSE ""])]

\* The sessions the cascade loop sends an observer copy to.
cascadeViewers(sender, senderRank, recipient) ==
    {sid \in DOMAIN sessions :
        /\ sessions[sid].username # sender
        /\ sessions[sid].username # recipient
        /\ getRankLevel(sessions[sid].rank) < getRankLevel(senderRank)}

\* The sessions the "owner always sees" loop sends an observer copy to.
ownerViewers(sender, senderRank, recipient) ==
    IF senderRank # "owner"
    THEN {sid \in DOMAIN sessions :
            /\ sessions[sid].rank = "owner"
            /\ sessions[sid].username # sender
            /\ sessions[sid].username # recipient}
    ELSE {}

PrivateMessage(c, recipient, message) ==
    /\ c \in live
    /\ cmd' = Command("private_message", c, [recipient |-> recipient, message |-> message])
    /\ IF currentUser[c] = None \/ recipient = "" \/ message = ""
       THEN /\ out' = <<>>
            /\ UNCHANGED <<live, closure, joined, store, now>>
       ELSE LET sender == currentUser[c][1]
                recipientRank == IF recipient \in DOMAIN users
                                 THEN users[recipient].rank ELSE "member"
                messageData == [from |-> sender, fromRank |-> userRank[c],
                                to |-> recipient, toRank |-> recipientRank,
                                message |-> message]
                recipientSocketId ==
                    firstSession(sessionOrder,
                                 {sid \in DOMAIN sessions : sessions[sid].username = recipient})
            IN  /\ privateMessages' = pushBounded(privateMessages, messageData, PrivateCap)
                /\ out' = (IF recipientSocketId # None
                           THEN ToSessions(sessionOrder, {recipientSocketId[1]},
                                           messageData, FALSE)
                           ELSE <<>>)
                          \o ToSessions(sessionOrder,
                                        cascadeViewers(sender, userRank[c], recipient),
                                        messageData, TRUE)
                          \o ToSessions(sessionOrder,
                                        ownerViewers(sender, userRank[c], recipient),
                                        messageData, TRUE)
                          \o ToSocket(c, "private_message_sent",
                                      [to |-> recipient, message |-> message])
                /\ UNCHANGED <<live, closure, joined, users, rooms, sessions,
                               sessionOrder, bans, mutes, now>>

\* The private_history payload for a viewer.
privateHistoryFor(viewer, viewerRank) ==
    SelectSeq(privateMessages,
              LAMBDA msg : \/ msg.from = viewer
                           \/ msg.to = viewer
                           \/ getRankLevel(viewerRank) < getRankLevel(msg.fromRank))

GetPrivateHistory(c) ==
    /\ c \in live
    /\ cmd' = Command("get_private_history", c, <<>>)
    /\ out' = IF currentUser[c] = None THEN <<>>
              ELSE ToSocket(c, "private_history",
                            [messages |-> privateHistoryFor(currentUser[c][1], userRank[c])])
    /\ UNCHANGED <<live, closure, joined, store, now>>

(***************************************************************************)
(* VOICE AND VIDEO CHAT SIGNALING                                          *)
(***************************************************************************)
\* `voice:${roomName}` and `video:${roomName}`
voiceChannel(roomName) == "voice:" \o roomName
videoChannel(roomName) == "video:" \o roomName

\* join_voice takes the room and the user name from the payload.
JoinVoice(c, roomName, username) ==
    /\ c \in live
    /\ cmd' = Command("join_voice", c, [roomName |-> roomName, username |-> username])
    /\ mutes' = mutesAfterCheck(mutes, username, roomName)
    /\ IF isUserMuted(username, roomName)
       THEN /\ out' = ToSocket(c, "voice_error",
                               [message |-> "You are muted and cannot join voice chat"])
            /\ joined' = joined
       ELSE LET j == [joined EXCEPT ![c] = @ \cup {voiceChannel(roomName)}]
            IN  /\ joined' = j
                /\ out' = ToRoom(j, roomName, "chat message",
                                 SystemMsg("joined voice chat", username))
                          \o BroadcastToRoom(j, c, voiceChannel(roomName), "user_joined_voice",
                                             [userId |-> c, username |-> username])
    /\ UNCHANGED <<live, closure, users, rooms, sessions, sessionOrder, bans,
                   privateMessages, now>>

\* The outcome of join_video's checks, for the rank of the payload.
videoOutcome(rank, muted) ==
    IF ~permissionsOf(rank).canVideo THEN "no permission"
    ELSE IF muted THEN "muted"
    ELSE "ok"

\* join_video takes the room, the user name and the rank from the payload.
JoinVideo(c, roomName, username, rank) ==
    /\ c \in live
    /\ cmd' = Command("join_video", c,
                      [roomName |-> roomName, username |-> username, rank |-> rank])
    /\ LET outcome == videoOutcome(rank, isUserMuted(username, roomName))
           j == [joined EXCEPT ![c] = @ \cup {videoChannel(roomName)}]
       IN  CASE outcome = "no permission" ->
                    /\ out' = ToSocket(c, "video_error",
                                       [message |-> "Video chat requires VIP+ rank"])
                    /\ UNCHANGED <<joined, mutes>>
             [] outcome = "muted" ->
                    /\ out' = ToSocket(c, "video_error",
                                       [message |-> "You are muted and cannot join video chat"])
                    /\ UNCHANGED <<joined, mutes>>
             [] outcome = "ok" ->
                    /\ mutes' = mutesAfterCheck(mutes, username, roomName)
                    /\ joined' = j
                    /\ out' = ToRoom(j, roomName, "chat message",
                                     SystemMsg("joined video chat", username))
                              \o BroadcastToRoom(j, c, videoChannel(roomName),
                                                 "user_joined_video",
                                                 [userId |-> c, username |-> username,
                                                  rank |-> rank])
    /\ UNCHANGED <<live, closure, users, rooms, sessions, sessionOrder, bans,
                   privateMessages, now>>
(***************************************************************************)
(* ADMIN COMMANDS                                                          *)
(***************************************************************************)
MutedError(c) == ErrorTo(c, "You are muted and cannot use commands")
NoPermission(c) == ErrorTo(c, "You do not have permission")
IncorrectPassword(c) == ErrorTo(c, "Incorrect password")

\* userRank !== 'admin' && userRank !== 'owner' && password !== ADMIN_PASSWORD
secretRequiredAndWrong(rank, password) ==
    rank # "admin" /\ rank # "owner" /\ password # ADMIN_PASSWORD

ClearMessages(c, password) ==
    /\ c \in live
    /\ cmd' = Command("clear_messages", c, [password |-> password])
    /\ IF currentUser[c] = None \/ currentRoom[c] = None
       THEN /\ out' = <<>>
            /\ UNCHANGED <<live, closure, joined, store, now>>
       ELSE LET user == currentUser[c][1]
                room == currentRoom[c][1]
                systemMsg == SystemMsg("Messages cleared by", user)
            IN  /\ mutes' = mutesAfterCheck(mutes, user, room)
                /\ IF isUserMuted(user, room)
                   THEN out' = MutedError(c) /\ rooms' = rooms
                   ELSE IF ~permissionsOf(userRank[c]).canClear
                   THEN out' = NoPermission(c) /\ rooms' = rooms
                   ELSE IF secretRequiredAndWrong(userRank[c], password)
                   THEN out' = IncorrectPassword(c) /\ rooms' = rooms
                   ELSE /\ rooms' = IF room \in DOMAIN rooms
                                    THEN [rooms EXCEPT ![room].messages = <<systemMsg>>]
                                    ELSE rooms
                        /\ out' = ToRoom(joined, room, "messages_cleared", <<>>)
                                  \o ToRoom(joined, room, "chat message", systemMsg)
                /\ UNCHANGED <<live, closure, joined, users, sessions, sessionOrder,
                               bans, privateMessages, now>>

\* The rank a sanction handler reads for its target:
\* memoryStore.users.get(target)?.rank || 'member'
targetRank(target) ==
    IF target \in DOMAIN users THEN users[target].rank ELSE "member"

\* Faulty variant of rankCheckRefuses: a peer is not refused.
rankCheckRefuses_PeerAllowed(callerRank, targetRankValue) ==
    getRankLevel(callerRank) > getRankLevel(targetRankValue) /\ callerRank # "owner"

\* The rank check of ban_user, mute_user and unmute_user refuses:
\* callerLevel >= targetLevel && userRank !== 'owner'
rankCheckRefuses(callerRank, targetRankValue) ==
    getRankLevel(callerRank) >= getRankLevel(targetRankValue) /\ callerRank # "owner"

\* The outcome of ban_user's checks: "ok" or the reason it stops.
banOutcome(callerRank, muted, bannedUser, password) ==
    IF muted THEN "muted"
    ELSE IF ~permissionsOf(callerRank).canBan THEN "no permission"
    ELSE IF bannedUser = "" THEN "no target"
    ELSE IF rankCheckRefuses(callerRank, targetRank(bannedUser)) THEN "rank"
    ELSE IF callerRank = "moderator" /\ password # ADMIN_PASSWORD THEN "password"
    ELSE "ok"

\* bans.get(room).set(bannedUser, record), creating the room's Map when absent
bansAfterBan(b, room, bannedUser, record) ==
    MapSet(b, room, MapSet(IF room \in DOMAIN b THEN b[room] ELSE <<>>, bannedUser, record))

BanUser(c, bannedUser, duration, password) ==
    /\ c \in live
    /\ cmd' = Command("ban_user", c, [bannedUser |-> bannedUser, duration |-> duration,
                                      password |-> password])
    /\ IF currentUser[c] = None \/ currentRoom[c] = None
       THEN /\ out' = <<>>
            /\ UNCHANGED <<live, closure, joined, store, now>>
       ELSE LET user == currentUser[c][1]
                room == currentRoom[c][1]
                outcome == banOutcome(userRank[c], isUserMuted(user, room), bannedUser, password)
                bannedSocketId ==
                    firstSession(sessionOrder,
                                 {sid \in DOMAIN sessions :
                                    /\ sessions[sid].username = bannedUser
                                    /\ sessions[sid].roomName = Some(room)})
            IN  /\ mutes' = mutesAfterCheck(mutes, user, room)
                /\ CASE outcome = "muted" -> out' = MutedError(c) /\ bans' = bans
                     [] outcome = "no permission" -> out' = NoPermission(c) /\ bans' = bans
                     [] outcome = "no target" -> out' = <<>> /\ bans' = bans
                     [] outcome = "rank" ->
                            /\ out' = ErrorTo(c, "Cannot ban users of equal or higher rank")
                            /\ bans' = bans
                     [] outcome = "password" -> out' = IncorrectPassword(c) /\ bans' = bans
                     [] outcome = "ok" ->
                            /\ bans' = bansAfterBan(bans, room, bannedUser,
                                                    [expiresAt |-> now + banDuration(duration),
                                                     bannedBy |-> user])
                            /\ out' = ToRoom(joined, room, "user_banned",
                                             [bannedUser |-> bannedUser, bannerName |-> user])
                                      \o ToRoom(joined, room, "chat message",
                                                SystemMsg("banned by " \o user, bannedUser))
                                      \o (IF bannedSocketId # None
                                          THEN ToId(bannedSocketId[1], "force_leave",
                                                    [roomName |-> room, reason |-> "banned"])
                                          ELSE <<>>)
                /\ UNCHANGED <<live, closure, joined, users, rooms, sessions, sessionOrder,
                               privateMessages, now>>

\* The outcome of unban_user's checks.
unbanOutcome(callerRank, muted, unbannedUser, password) ==
    IF muted THEN "muted"
    ELSE IF ~permissionsOf(callerRank).canUnban THEN "no permission"
    ELSE IF unbannedUser = "" THEN "no target"
    ELSE IF secretRequiredAndWrong(callerRank, password) THEN "password"
    ELSE "ok"

UnbanUser(c, unbannedUser, password) ==
    /\ c \in live
    /\ cmd' = Command("unban_user", c, [unbannedUser |-> unbannedUser, password |-> password])
    /\ IF currentUser[c] = None \/ currentRoom[c] = None
       THEN /\ out' = <<>>
            /\ UNCHANGED <<live, closure, joined, store, now>>
       ELSE LET user == currentUser[c][1]
                room == currentRoom[c][1]
                outcome == unbanOutcome(userRank[c], isUserMuted(user, room),
                                        unbannedUser, password)
            IN  /\ mutes' = mutesAfterCheck(mutes, user, room)
                /\ CASE outcome = "muted" -> out' = MutedError(c) /\ bans' = bans
                     [] outcome = "no permission" -> out' = NoPermission(c) /\ bans' = bans
                     [] outcome = "no target" -> out' = <<>> /\ bans' = bans
                     [] outcome = "password" -> out' = IncorrectPassword(c) /\ bans' = bans
                     [] outcome = "ok" ->
                            /\ bans' = IF room \in DOMAIN bans
                                       THEN [bans EXCEPT ![room] = MapDelete(@, unbannedUser)]
                                       ELSE bans
                            /\ out' = ToRoom(joined, room, "user_unbanned",
                                             [unbannedUser |-> unbannedUser,
                                              unbannerName |-> user])
                                      \o ToRoom(joined, room, "chat message",
                                                SystemMsg("unbanned by " \o user, unbannedUser))
                /\ UNCHANGED <<live, closure, joined, users, rooms, sessions, sessionOrder,
                               privateMessages, now>>

\* The outcome of the checks mute_user and unmute_user share.
muteOutcome(callerRank, muted, target) ==
    IF muted THEN "muted"
    ELSE IF ~permissionsOf(callerRank).canMute THEN "no permission"
    ELSE IF target = "" THEN "no target"
    ELSE IF rankCheckRefuses(callerRank, targetRank(target)) THEN "rank"
    ELSE "ok"

MuteUser(c, mutedUser, duration) ==
    /\ c \in live
    /\ cmd' = Command("mute_user", c, [mutedUser |-> mutedUser, duration |-> duration])
    /\ IF currentUser[c] = None \/ currentRoom[c] = None
       THEN /\ out' = <<>>
            /\ UNCHANGED <<live, closure, joined, store, now>>
       ELSE LET user == currentUser[c][1]
                room == currentRoom[c][1]
                outcome == muteOutcome(userRank[c], isUserMuted(user, room), mutedUser)
                checked == mutesAfterCheck(mutes, user, room)
            IN  /\ CASE outcome = "muted" -> out' = MutedError(c) /\ mutes' = checked
                     [] outcome = "no permission" -> out' = NoPermission(c) /\ mutes' = checked
                     [] outcome = "no target" -> out' = <<>> /\ mutes' = checked
                     [] outcome = "rank" ->
                            /\ out' = ErrorTo(c, "Cannot mute users of equal or higher rank")
                            /\ mutes' = checked
                     [] outcome = "ok" ->
                            /\ mutes' = MapSet(checked, muteKeyOf(mutedUser, room),
                                               [roomName |-> room,
                                                expiresAt |-> now + parseDuration(duration),
                                                mutedBy |-> user])
                            /\ out' = ToRoom(joined, room, "user_muted",
                                             [mutedUser |-> mutedUser, muterName |-> user])
                                      \o ToRoom(joined, room, "chat message",
                                                SystemMsg("muted by " \o user, mutedUser))
                /\ UNCHANGED <<live, closure, joined, users, rooms, sessions, sessionOrder,
                               bans, privateMessages, now>>

UnmuteUser(c, unmutedUser) ==
    /\ c \in live
    /\ cmd' = Command("unmute_user", c, [unmutedUser |-> unmutedUser])
    /\ IF currentUser[c] = None \/ currentRoom[c] = None
       THEN /\ out' = <<>>
            /\ UNCHANGED <<live, closure, joined, store, now>>
       ELSE LET user == currentUser[c][1]
                room == currentRoom[c][1]
                outcome == muteOutcome(userRank[c], isUserMuted(user, room), unmutedUser)
                checked == mutesAfterCheck(mutes, user, room)
            IN  /\ CASE outcome = "muted" -> out' = MutedError(c) /\ mutes' = checked
                     [] outcome = "no permission" -> out' = NoPermission(c) /\ mutes' = checked
                     [] outcome = "no target" -> out' = <<>> /\ mutes' = checked
                     [] outcome = "rank" ->
                            /\ out' = ErrorTo(c, "Cannot unmute users of equal or higher rank")
                            /\ mutes' = checked
                     [] outcome = "ok" ->
                            /\ mutes' = MapDelete(checked, muteKeyOf(unmutedUser, room))
                            /\ out' = ToRoom(joined, room, "user_unmuted",
                                             [unmutedUser |-> unmutedUser,
                                              unmuterName |-> user])
                                      \o ToRoom(joined, room, "chat message",
                                                SystemMsg("unmuted by " \o user, unmutedUser))
                /\ UNCHANGED <<live, closure, joined, users, rooms, sessions, sessionOrder,
                               bans, privateMessages, now>>

\* Faulty variant of deleteOutcome: the default room is not refused.
deleteOutcome_NoDefaultGuard(callerRank, roomName, password) ==
    IF ~permissionsOf(callerRank).canDeleteRoom THEN "no permission"
    ELSE IF roomName = "" THEN "no target"
    ELSE IF secretRequiredAndWrong(callerRank, password) THEN "password"
    ELSE "ok"

\* The outcome of delete_room's checks.
deleteOutcome(callerRank, roomName, password) ==
    IF ~permissionsOf(callerRank).canDeleteRoom THEN "no permission"
    ELSE IF roomName = "" THEN "no target"
    ELSE IF secretRequiredAndWrong(callerRank, password) THEN "password"
    ELSE IF roomName = "Main" THEN "default room"
    ELSE "ok"

DeleteRoom(c, roomName, password) ==
    /\ c \in live
    /\ cmd' = Command("delete_room", c, [roomName |-> roomName, password |-> password])
    /\ IF currentUser[c] = None
       THEN /\ out' = <<>>
            /\ UNCHANGED <<live, closure, joined, store, now>>
       ELSE LET outcome == deleteOutcome(userRank[c], roomName, password)
            IN  /\ CASE outcome = "no permission" -> out' = NoPermission(c) /\ rooms' = rooms
                     [] outcome = "no target" -> out' = <<>> /\ rooms' = rooms
                     [] outcome = "password" -> out' = IncorrectPassword(c) /\ rooms' = rooms
                     [] outcome = "default room" ->
                            out' = ErrorTo(c, "Cannot delete Main room") /\ rooms' = rooms
                     [] outcome = "ok" ->
                            /\ rooms' = MapDelete(rooms, roomName)
                            /\ out' = ToRoom(joined, roomName, "room_deleted_by_owner",
                                             [roomName |-> roomName])
                                      \o ToAll("room_deleted", [name |-> roomName])
                /\ UNCHANGED <<live, closure, joined, users, sessions, sessionOrder, bans,
                               mutes, privateMessages, now>>

\* Faulty variant of grantOutcome: the new rank is not looked up in canGrant.
grantOutcome_AnyRank(callerRank, muted, targetUser, newRank, password) ==
    IF muted THEN "muted"
    ELSE IF permissionsOf(callerRank).canGrant = {} THEN "no permission"
    ELSE IF targetUser = "" \/ newRank = "" THEN "no target"
    ELSE IF callerRank # "owner" /\ password # ADMIN_PASSWORD THEN "password"
    ELSE "ok"

\* The outcome of grant_rank's checks.
grantOutcome(callerRank, muted, targetUser, newRank, password) ==
    IF muted THEN "muted"
    ELSE IF permissionsOf(callerRank).canGrant = {} THEN "no permission"
    ELSE IF targetUser = "" \/ newRank = "" THEN "no target"
    ELSE IF newRank \notin permissionsOf(callerRank).canGrant THEN "cannot grant"
    ELSE IF callerRank # "owner" /\ password # ADMIN_PASSWORD THEN "password"
    ELSE "ok"

GrantRank(c, targetUser, newRank, password) ==
    /\ c \in live
    /\ cmd' = Command("grant_rank", c, [targetUser |-> targetUser, newRank |-> newRank,
                                        password |-> password])
    /\ IF currentUser[c] = None
       THEN /\ out' = <<>>
            /\ UNCHANGED <<live, closure, joined, store, now>>
       ELSE LET user == currentUser[c][1]
                inRoom == currentRoom[c] # None
                muted == inRoom /\ isUserMuted(user, currentRoom[c][1])
                outcome == grantOutcome(userRank[c], muted, targetUser, newRank, password)
                targetSid ==
                    firstSession(sessionOrder,
                                 {sid \in DOMAIN sessions : sessions[sid].username = targetUser})
                known == targetUser \in DOMAIN users
            IN  /\ mutes' = IF inRoom THEN mutesAfterCheck(mutes, user, currentRoom[c][1])
                            ELSE mutes
                /\ CASE outcome = "muted" -> out' = MutedError(c) /\ UNCHANGED <<users, sessions>>
                     [] outcome = "no permission" ->
                            out' = NoPermission(c) /\ UNCHANGED <<users, sessions>>
                     [] outcome = "no target" -> out' = <<>> /\ UNCHANGED <<users, sessions>>
                     [] outcome = "cannot grant" ->
                            /\ out' = ErrorTo(c, "Cannot grant " \o newRank \o " rank")
                            /\ UNCHANGED <<users, sessions>>
                     [] outcome = "password" ->
                            out' = IncorrectPassword(c) /\ UNCHANGED <<users, sessions>>
                     [] outcome = "ok" ->
                            /\ users' = IF known THEN [users EXCEPT ![targetUser].rank = newRank]
                                        ELSE users
                            /\ sessions' = IF known /\ targetSid # None
                                           THEN [sessions EXCEPT ![targetSid[1]].rank = newRank]
                                           ELSE sessions
                            /\ out' = (IF known /\ targetSid # None
                                       THEN ToId(targetSid[1], "rank_changed",
                                                 [newRank |-> newRank, grantedBy |-> user])
                                       ELSE <<>>)
                                      \o ToSocket(c, "command_success",
                                                  [targetUser |-> targetUser,
                                                   newRank |-> newRank])
                /\ UNCHANGED <<live, closure, joined, rooms, sessionOrder, bans,
                               privateMessages, now>>

(***************************************************************************)
(* src/server.js: the MongoDB connection, and the login, create_room and   *)
(* join_room handlers.  An async handler runs up to its next await in one  *)
(* step; the database call it awaits is carried out when the handler       *)
(* resumes, and throws when the connection is down.  A connection has at   *)
(* most one handler suspended at a time.                                   *)
(***************************************************************************)
\* mongoose.connect resolves, or the connection's 'reconnected' event fires.
connectToMongoDB ==
    /\ ~isMongoConnected
    /\ isMongoConnected' = TRUE
    /\ cmd' = Command("mongo connected", "", <<>>)
    /\ out' = <<>>
    /\ UNCHANGED <<live, closure, joined, store, now, User, Room, Session, awaiting,
                   Message>>

\* The connection's 'error' or 'disconnected' event.
mongoDisconnected ==
    /\ isMongoConnected
    /\ isMongoConnected' = FALSE
    /\ cmd' = Command("mongo disconnected", "", <<>>)
    /\ out' = <<>>
    /\ UNCHANGED <<live, closure, joined, store, now, User, Room, Session, awaiting,
                   Message>>

\* initializeDefaultData: the Main room and the owner and admin accounts are
\* created in the database when they are missing; the owner's rank is reset.
initializeDefaultData ==
    /\ isMongoConnected
    /\ Room' = IF DefaultRoom \in DOMAIN Room THEN Room
               ELSE MapSet(Room, DefaultRoom, [password |-> ""])
    /\ User' = LET withOwner ==
                       IF OWNER_USERNAME \in DOMAIN User
                       THEN [User EXCEPT ![OWNER_USERNAME].rank = "owner"]
                       ELSE MapSet(User, OWNER_USERNAME,
                                   [password |-> ADMIN_PASSWORD, rank |-> "owner"])
               IN  IF "admin" \in DOMAIN withOwner THEN withOwner
                   ELSE MapSet(withOwner, "admin",
                               [password |-> ADMIN_PASSWORD, rank |-> "admin"])
    /\ cmd' = Command("default data", "", <<>>)
    /\ out' = <<>>
    /\ UNCHANGED <<live, closure, joined, store, now, isMongoConnected, Session, awaiting,
                   Message>>

\* The handler of connection c suspended at an await.
Suspended(c, handler, at, data) ==
    [awaiting EXCEPT ![c] = Some([handler |-> handler, at |-> at, data |-> data])]
Resumed(c) == [awaiting EXCEPT ![c] = None]
isSuspendedAt(c, handler, at) ==
    /\ awaiting[c] # None
    /\ awaiting[c][1].handler = handler
    /\ awaiting[c][1].at = at

\* The rank the memory-store part of server.js's login signs the caller in
\* with: the stored rank for a matching password, the owner and admin special
\* cases, and member for any other username and password.
memoryLoginRank(username, password) ==
    IF username \in DOMAIN users /\ users[username].password = password
    THEN users[username].rank
    ELSE IF username = OWNER_USERNAME /\ password = ADMIN_PASSWORD THEN "owner"
    ELSE IF username = "admin" /\ password = ADMIN_PASSWORD THEN "admin"
    ELSE "member"

\* The memory-store part of the login handler (server.js:619-685).
memoryLogin(c, username, password) ==
    LET rank == memoryLoginRank(username, password)
    IN  /\ currentUser' = [currentUser EXCEPT ![c] = Some(username)]
        /\ userRank' = [userRank EXCEPT ![c] = rank]
        /\ sessions' = MapSet(sessions, c,
                              [username |-> username, rank |-> rank, roomName |-> None])
        /\ sessionOrder' = orderAfterSet(sessionOrder, c)
        /\ out' = ToSocket(c, "auth_success", [username |-> username, rank |-> rank])

AuthError(c, message) == ToSocket(c, "auth_error", [message |-> message])

\* socket.on('login'), up to the first await.
ServerLogin(c, username, password) ==
    /\ c \in live
    /\ awaiting[c] = None
    /\ cmd' = Command("login", c, [username |-> username, password |-> password])
    /\ IF username = "" \/ password = ""
       THEN /\ out' = AuthError(c, "Username and password required")
            /\ UNCHANGED <<currentUser, userRank, sessions, sessionOrder, awaiting>>
       ELSE IF isMongoConnected
       THEN /\ awaiting' = Suspended(c, "login", "User.findOne",
                                     [username |-> username, password |-> password])
            /\ out' = <<>>
            /\ UNCHANGED <<currentUser, userRank, sessions, sessionOrder>>
       ELSE /\ memoryLogin(c, username, password)
            /\ UNCHANGED awaiting
    /\ UNCHANGED <<live, currentRoom, joined, users, rooms, bans, mutes,
                   privateMessages, now, isMongoConnected, User, Room, Session,
                   Message>>

\* login resumes after `await User.findOne({ username })`.
LoginAfterFindOne(c) ==
    /\ isSuspendedAt(c, "login", "User.findOne")
    /\ LET d == awaiting[c][1].data
       IN  /\ cmd' = Command("login: User.findOne", c, d)
           /\ IF ~isMongoConnected
              THEN /\ memoryLogin(c, d.username, d.password)
                   /\ awaiting' = Resumed(c)
              ELSE IF d.username \notin DOMAIN User
              THEN /\ out' = AuthError(c, "Username not found")
                   /\ awaiting' = Resumed(c)
                   /\ UNCHANGED <<currentUser, userRank, sessions, sessionOrder>>
              ELSE IF User[d.username].password # d.password
              THEN /\ out' = AuthError(c, "Incorrect password")
                   /\ awaiting' = Resumed(c)
                   /\ UNCHANGED <<currentUser, userRank, sessions, sessionOrder>>
              ELSE /\ awaiting' = Suspended(c, "login", "user.save",
                                            [username |-> d.username,
                                             password |-> d.password,
                                             rank |-> User[d.username].rank])
                   /\ out' = <<>>
                   /\ UNCHANGED <<currentUser, userRank, sessions, sessionOrder>>
    /\ UNCHANGED <<live, currentRoom, joined, users, rooms, bans, mutes,
                   privateMessages, now, isMongoConnected, User, Room, Session,
                   Message>>

\* login resumes after `await user.save()`.
LoginAfterSave(c) ==
    /\ isSuspendedAt(c, "login", "user.save")
    /\ LET d == awaiting[c][1].data
       IN  /\ cmd' = Command("login: user.save", c, d)
           /\ IF ~isMongoConnected
              THEN /\ memoryLogin(c, d.username, d.password)
                   /\ awaiting' = Resumed(c)
              ELSE /\ currentUser' = [currentUser EXCEPT ![c] = Some(d.username)]
                   /\ userRank' = [userRank EXCEPT ![c] = d.rank]
                   /\ awaiting' = Suspended(c, "login", "Session.create", d)
                   /\ out' = <<>>
                   /\ UNCHANGED <<sessions, sessionOrder>>
    /\ UNCHANGED <<live, currentRoom, joined, users, rooms, bans, mutes,
                   privateMessages, now, isMongoConnected, User, Room, Session,
                   Message>>

\* login resumes after `await Session.create(...)`, whose failure (connection
\* down, socketId already present) is caught and logged.
LoginAfterSessionCreate(c) ==
    /\ isSuspendedAt(c, "login", "Session.create")
    /\ LET d == awaiting[c][1].data
       IN  /\ cmd' = Command("login: Session.create", c, d)
           /\ Session' = IF isMongoConnected /\ \A doc \in Session : doc.socketId # c
                         THEN Session \cup {[socketId |-> c, username |-> d.username,
                                               roomName |-> None]}
                         ELSE Session
           /\ out' = ToSocket(c, "auth_success", [username |-> d.username, rank |-> d.rank])
           /\ awaiting' = Resumed(c)
    /\ UNCHANGED <<live, closure, joined, store, now, isMongoConnected, User, Room,
                   Message>>

\* The events of a successful create_room: joined_room to the creator,
\* user_joined to the room, room_created to everybody.
roomCreatedEvents(c, j, roomName, password) ==
    ToSocket(c, "joined_room",
             [roomName |-> roomName, username |-> currentUser[c][1], rank |-> userRank[c]])
    \o ToRoom(j, roomName, "user_joined",
              [username |-> currentUser[c][1], rank |-> userRank[c], members |-> 1])
    \o ToAll("room_created", [name |-> roomName, hasPassword |-> password # ""])

\* The memory-store part of the create_room handler (server.js:907-938).
memoryCreateRoom(c, roomName, password) ==
    IF roomName \in DOMAIN rooms
    THEN /\ out' = ErrorTo(c, "Room already exists")
         /\ UNCHANGED <<currentRoom, joined, rooms, sessions>>
    ELSE /\ rooms' = MapSet(rooms, roomName,
                            [password |-> password, isDefault |-> FALSE, messages |-> <<>>])
         /\ currentRoom' = [currentRoom EXCEPT ![c] = Some(roomName)]
         /\ joined' = [joined EXCEPT ![c] = @ \cup {roomName}]
         /\ sessions' = sessionsWithRoom(sessions, c, Some(roomName))
         /\ out' = roomCreatedEvents(c, joined', roomName, password)

\* socket.on('create_room'), up to the first await.
ServerCreateRoom(c, roomName, password) ==
    /\ c \in live
    /\ awaiting[c] = None
    /\ cmd' = Command("create_room", c, [roomName |-> roomName, password |-> password])
    /\ IF currentUser[c] = None
       THEN /\ out' = ErrorTo(c, "Not authenticated")
            /\ UNCHANGED <<currentRoom, joined, rooms, sessions, awaiting>>
       ELSE IF isBlank(roomName)
       THEN /\ out' = ErrorTo(c, "Room name cannot be empty")
            /\ UNCHANGED <<currentRoom, joined, rooms, sessions, awaiting>>
       ELSE IF isMongoConnected
       THEN /\ awaiting' = Suspended(c, "create_room", "Room.findOne",
                                     [roomName |-> roomName, password |-> password])
            /\ out' = <<>>
            /\ UNCHANGED <<currentRoom, joined, rooms, sessions>>
       ELSE /\ memoryCreateRoom(c, roomName, password)
            /\ UNCHANGED awaiting
    /\ UNCHANGED <<live, currentUser, userRank, users, sessionOrder, bans, mutes,
                   privateMessages, now, isMongoConnected, User, Room, Session,
                   Message>>

\* create_room resumes after `await Room.findOne({ name: roomName })`.
CreateRoomAfterFindOne(c) ==
    /\ isSuspendedAt(c, "create_room", "Room.findOne")
    /\ LET d == awaiting[c][1].data
       IN  /\ cmd' = Command("create_room: Room.findOne", c, d)
           /\ IF ~isMongoConnected
              THEN /\ memoryCreateRoom(c, d.roomName, d.password)
                   /\ awaiting' = Resumed(c)
              ELSE IF d.roomName \in DOMAIN Room
              THEN /\ out' = ErrorTo(c, "Room already exists")
                   /\ awaiting' = Resumed(c)
                   /\ UNCHANGED <<currentRoom, joined, rooms, sessions>>
              ELSE /\ awaiting' = Suspended(c, "create_room", "Room.create", d)
                   /\ out' = <<>>
                   /\ UNCHANGED <<currentRoom, joined, rooms, sessions>>
    /\ UNCHANGED <<live, currentUser, userRank, users, sessionOrder, bans, mutes,
                   privateMessages, now, isMongoConnected, User, Room, Session,
                   Message>>

\* create_room resumes after `await Room.create(...)`.  The call throws when
\* the connection is down or the unique index on name finds the name taken;
\* the handler catches it and goes on with the memory store.
CreateRoomAfterCreate(c) ==
    /\ isSuspendedAt(c, "create_room", "Room.create")
    /\ LET d == awaiting[c][1].data
       IN  /\ cmd' = Command("create_room: Room.create", c, d)
           /\ awaiting' = Resumed(c)
           /\ IF ~isMongoConnected \/ d.roomName \in DOMAIN Room
              THEN /\ memoryCreateRoom(c, d.roomName, d.password)
                   /\ UNCHANGED Room
              ELSE /\ Room' = MapSet(Room, d.roomName, [password |-> d.password])
                   /\ currentRoom' = [currentRoom EXCEPT ![c] = Some(d.roomName)]
                   /\ joined' = [joined EXCEPT ![c] = @ \cup {d.roomName}]
                   /\ out' = roomCreatedEvents(c, joined', d.roomName, d.password)
                   /\ UNCHANGED <<rooms, sessions>>
    /\ UNCHANGED <<live, currentUser, userRank, users, sessionOrder, bans, mutes,
                   privateMessages, now, isMongoConnected, User, Session, Message>>

\* What join_room found when it was called: the caller's room, the rooms its
\* socket is in and its session records.  The handler carries it along for the
\* properties; the code has no such value.
entryState(c) ==
    [currentRoom |-> currentRoom[c],
     joined |-> joined[c],
     session |-> IF c \in DOMAIN sessions THEN Some(sessions[c]) ELSE None,
     documents |-> {doc \in Session : doc.socketId = c}]

\* The memory-store part of the join_room handler (server.js:1034-1075).
memoryJoinRoom(c, roomName, password) ==
    IF roomName \notin DOMAIN rooms
    THEN /\ out' = ErrorTo(c, "Room does not exist")
         /\ UNCHANGED <<currentRoom, joined, sessions>>
    ELSE IF rooms[roomName].password # "" /\ rooms[roomName].password # password
    THEN /\ out' = ErrorTo(c, "Incorrect password")
         /\ UNCHANGED <<currentRoom, joined, sessions>>
    ELSE /\ joined' = [joined EXCEPT ![c] =
                          (IF currentRoom[c] # None THEN @ \ {currentRoom[c][1]} ELSE @)
                          \cup {roomName}]
         /\ currentRoom' = [currentRoom EXCEPT ![c] = Some(roomName)]
         /\ sessions' = sessionsWithRoom(sessions, c, Some(roomName))
         /\ out' = ToSocket(c, "joined_room",
                            [roomName |-> roomName, username |-> currentUser[c][1],
                             rank |-> userRank[c]])
                   \o ToSocket(c, "room_history", [messages |-> rooms[roomName].messages])
                   \o ToRoom(joined', roomName, "user_joined",
                             [username |-> currentUser[c][1], rank |-> userRank[c],
                              members |-> memberCount(sessions', roomName)])

\* socket.on('join_room'), up to the first await.
ServerJoinRoom(c, roomName, password) ==
    /\ c \in live
    /\ awaiting[c] = None
    /\ cmd' = Command("join_room", c, [roomName |-> roomName, password |-> password])
    /\ IF currentUser[c] = None
       THEN /\ out' = ErrorTo(c, "Not authenticated")
            /\ UNCHANGED <<currentRoom, joined, sessions, awaiting>>
       ELSE IF isMongoConnected
       THEN /\ awaiting' = Suspended(c, "join_room", "Room.findOne",
                                     [roomName |-> roomName, password |-> password,
                                      entry |-> entryState(c)])
            /\ out' = <<>>
            /\ UNCHANGED <<currentRoom, joined, sessions>>
       ELSE /\ memoryJoinRoom(c, roomName, password)
            /\ UNCHANGED awaiting
    /\ UNCHANGED <<live, currentUser, userRank, users, rooms, sessionOrder, bans, mutes,
                   privateMessages, now, isMongoConnected, User, Room, Session,
                   Message>>

\* join_room resumes after `await Room.findOne({ name: roomName })`.
JoinRoomAfterFindOne(c) ==
    /\ isSuspendedAt(c, "join_room", "Room.findOne")
    /\ LET d == awaiting[c][1].data
       IN  /\ cmd' = Command("join_room: Room.findOne", c, d)
           /\ IF ~isMongoConnected
              THEN /\ memoryJoinRoom(c, d.roomName, d.password)
                   /\ awaiting' = Resumed(c)
              ELSE IF d.roomName \notin DOMAIN Room
              THEN /\ out' = ErrorTo(c, "Room does not exist")
                   /\ awaiting' = Resumed(c)
                   /\ UNCHANGED <<currentRoom, joined, sessions>>
              ELSE IF Room[d.roomName].password # "" /\ Room[d.roomName].password # d.password
              THEN /\ out' = ErrorTo(c, "Incorrect password")
                   /\ awaiting' = Resumed(c)
                   /\ UNCHANGED <<currentRoom, joined, sessions>>
              ELSE /\ awaiting' = Suspended(c, "join_room", "Ban.findOne", d)
                   /\ out' = <<>>
                   /\ UNCHANGED <<currentRoom, joined, sessions>>
    /\ UNCHANGED <<live, currentUser, userRank, users, rooms, sessionOrder, bans, mutes,
                   privateMessages, now, isMongoConnected, User, Room, Session,
                   Message>>

\* join_room resumes after `await Ban.findOne(...)` and, unbanned, moves the
\* socket to the room.  The Ban collection is written by handlers that are not
\* part of this model: the query finds an active ban (activeBan) or none.
JoinRoomAfterBanFindOne(c, activeBan) ==
    /\ isSuspendedAt(c, "join_room", "Ban.findOne")
    /\ LET d == awaiting[c][1].data
       IN  /\ cmd' = Command("join_room: Ban.findOne", c, d)
           /\ IF ~isMongoConnected
              THEN /\ memoryJoinRoom(c, d.roomName, d.password)
                   /\ awaiting' = Resumed(c)
              ELSE IF activeBan
              THEN /\ out' = ErrorTo(c, "You are banned from this room")
                   /\ awaiting' = Resumed(c)
                   /\ UNCHANGED <<currentRoom, joined, sessions>>
              ELSE /\ joined' = [joined EXCEPT ![c] =
                                    (IF currentRoom[c] # None
                                     THEN @ \ {currentRoom[c][1]} ELSE @)
                                    \cup {d.roomName}]
                   /\ currentRoom' = [currentRoom EXCEPT ![c] = Some(d.roomName)]
                   /\ awaiting' = Suspended(c, "join_room", "Session.updateOne", d)
                   /\ out' = <<>>
                   /\ UNCHANGED sessions
    /\ UNCHANGED <<live, currentUser, userRank, users, rooms, sessionOrder, bans, mutes,
                   privateMessages, now, isMongoConnected, User, Room, Session,
                   Message>>

\* Session.updateOne({ socketId }, { roomName })
sessionUpdateOne(docs, sid, roomName) ==
    {IF doc.socketId = sid THEN [doc EXCEPT !.roomName = Some(roomName)] ELSE doc :
        doc \in docs}

\* join_room resumes after `await Session.updateOne(...)`.
JoinRoomAfterUpdateOne(c) ==
    /\ isSuspendedAt(c, "join_room", "Session.updateOne")
    /\ LET d == awaiting[c][1].data
       IN  /\ cmd' = Command("join_room: Session.updateOne", c, d)
           /\ IF ~isMongoConnected
              THEN /\ memoryJoinRoom(c, d.roomName, d.password)
                   /\ awaiting' = Resumed(c)
                   /\ UNCHANGED Session
              ELSE /\ Session' = sessionUpdateOne(Session, c, d.roomName)
                   /\ out' = ToSocket(c, "joined_room",
                                      [roomName |-> d.roomName,
                                       username |-> currentUser[c][1],
                                       rank |-> userRank[c]])
                   /\ awaiting' = Suspended(c, "join_room", "Message.find", d)
                   /\ UNCHANGED <<currentRoom, joined, sessions>>
    /\ UNCHANGED <<live, currentUser, userRank, users, rooms, sessionOrder, bans, mutes,
                   privateMessages, now, isMongoConnected, User, Room, Message>>

\* The number of messages join_room reads from the history of a room.
FindLimit == 50

\* Message.find({ roomName }).sort({ timestamp: -1 }).limit(50).sort({ timestamp: 1 }):
\* the newest documents of the room that are saved, oldest first.
messageFind(docs, roomName) ==
    LET found == SelectSeq(docs, LAMBDA doc : doc.roomName = roomName /\ doc.inFlight = None)
    IN  IF Len(found) <= FindLimit THEN found
        ELSE SubSeq(found, Len(found) - FindLimit + 1, Len(found))

\* The room_history payload made of the documents found.
historyOf(found) ==
    [i \in 1..Len(found) |->
        [username |-> found[i].username, message |-> found[i].message,
         about |-> found[i].about, rank |-> found[i].senderRank]]

\* join_room resumes after `await Message.find({ roomName })...`.
JoinRoomAfterMessageFind(c) ==
    /\ isSuspendedAt(c, "join_room", "Message.find")
    /\ LET d == awaiting[c][1].data
       IN  /\ cmd' = Command("join_room: Message.find", c, d)
           /\ IF ~isMongoConnected
              THEN /\ memoryJoinRoom(c, d.roomName, d.password)
                   /\ awaiting' = Resumed(c)
              ELSE /\ out' = ToSocket(c, "room_history",
                                      [messages |-> historyOf(messageFind(Message,
                                                                          d.roomName))])
                   /\ awaiting' = Suspended(c, "join_room", "Session.countDocuments", d)
                   /\ UNCHANGED <<currentRoom, joined, sessions>>
    /\ UNCHANGED <<live, currentUser, userRank, users, rooms, sessionOrder, bans, mutes,
                   privateMessages, now, isMongoConnected, User, Room, Session,
                   Message>>

\* Session.countDocuments({ roomName })
sessionCountDocuments(docs, roomName) ==
    Cardinality({doc \in docs : doc.roomName = Some(roomName)})

\* join_room resumes after `await Session.countDocuments({ roomName })`.
JoinRoomAfterCount(c) ==
    /\ isSuspendedAt(c, "join_room", "Session.countDocuments")
    /\ LET d == awaiting[c][1].data
       IN  /\ cmd' = Command("join_room: Session.countDocuments", c, d)
           /\ awaiting' = Resumed(c)
           /\ IF ~isMongoConnected
              THEN memoryJoinRoom(c, d.roomName, d.password)
              ELSE /\ out' = ToRoom(joined, d.roomName, "user_joined",
                                    [username |-> currentUser[c][1], rank |-> userRank[c],
                                     members |-> sessionCountDocuments(Session, d.roomName)])
                   /\ UNCHANGED <<currentRoom, joined, sessions>>
    /\ UNCHANGED <<live, currentUser, userRank, users, rooms, sessionOrder, bans, mutes,
                   privateMessages, now, isMongoConnected, User, Room, Session,
                   Message>>

\* Message.create is called by the handler of connection c: the document is
\* built and takes the timestamp default, Date.now, so it is newer than every
\* document built before it.
messageBuilt(docs, c, roomName, messageData) ==
    Append(docs, [roomName |-> roomName, username |-> messageData.username,
                  message |-> messageData.message, about |-> messageData.about,
                  senderRank |-> messageData.rank, inFlight |-> Some(c)])

\* The Message.create call of connection c ends: the document is saved, or the
\* call is rejected (the handlers ignore it with .catch(() => {})).
messageCreated(docs, c, saved) ==
    IF saved
    THEN [i \in 1..Len(docs) |->
             IF docs[i].inFlight = Some(c) THEN [docs[i] EXCEPT !.inFlight = None]
             ELSE docs[i]]
    ELSE SelectSeq(docs, LAMBDA doc : doc.inFlight # Some(c))

\* socket.on('chat message'), up to the await.
ServerChatMessage(c, message) ==
    /\ c \in live
    /\ awaiting[c] = None
    /\ cmd' = Command("chat message", c, [message |-> message])
    /\ IF currentUser[c] = None \/ currentRoom[c] = None
       THEN /\ out' = <<>>
            /\ UNCHANGED <<rooms, awaiting, Message>>
       ELSE LET room == currentRoom[c][1]
                messageData == [username |-> currentUser[c][1], message |-> message,
                                about |-> "", rank |-> userRank[c]]
            IN  IF isMongoConnected
                THEN /\ Message' = messageBuilt(Message, c, room, messageData)
                     /\ awaiting' = Suspended(c, "chat message", "Message.create",
                                              messageData)
                     /\ out' = <<>>
                     /\ UNCHANGED rooms
                ELSE /\ rooms' = IF room \in DOMAIN rooms
                                 THEN roomsAfterPush(rooms, room, messageData)
                                 ELSE rooms
                     /\ out' = BroadcastToRoom(joined, c, room, "chat message", messageData)
                     /\ UNCHANGED <<awaiting, Message>>
    /\ UNCHANGED <<live, closure, joined, users, sessions, sessionOrder, bans, mutes,
                   privateMessages, now, isMongoConnected, User, Room, Session>>

\* chat message resumes after `await Message.create(...)` and broadcasts.
ChatAfterCreate(c) ==
    /\ isSuspendedAt(c, "chat message", "Message.create")
    /\ LET messageData == awaiting[c][1].data
       IN  /\ cmd' = Command("chat message: Message.create", c, messageData)
           /\ Message' = messageCreated(Message, c, isMongoConnected)
           /\ out' = IF currentRoom[c] = None THEN <<>>
                     ELSE BroadcastToRoom(joined, c, currentRoom[c][1], "chat message",
                                          messageData)
    /\ awaiting' = Resumed(c)
    /\ UNCHANGED <<live, closure, joined, store, now, isMongoConnected, User, Room, Session>>

\* socket.on('share_file'), up to the await.
ServerShareFile(c, fileName) ==
    /\ c \in live
    /\ awaiting[c] = None
    /\ cmd' = Command("share_file", c, [fileName |-> fileName])
    /\ IF currentUser[c] = None \/ currentRoom[c] = None
       THEN /\ out' = <<>>
            /\ UNCHANGED <<rooms, awaiting, Message>>
       ELSE LET room == currentRoom[c][1]
                messageData == [username |-> currentUser[c][1], message |-> "Shared file",
                                about |-> fileName, rank |-> userRank[c]]
            IN  IF isMongoConnected
                THEN /\ Message' = messageBuilt(Message, c, room, messageData)
                     /\ awaiting' = Suspended(c, "share_file", "Message.create",
                                              messageData)
                     /\ out' = <<>>
                     /\ UNCHANGED rooms
                ELSE /\ rooms' = IF room \in DOMAIN rooms
                                 THEN roomsAfterPush(rooms, room, messageData)
                                 ELSE rooms
                     /\ out' = ToRoom(joined, room, "chat message", messageData)
                     /\ UNCHANGED <<awaiting, Message>>
    /\ UNCHANGED <<live, closure, joined, users, sessions, sessionOrder, bans, mutes,
                   privateMessages, now, isMongoConnected, User, Room, Session>>

\* share_file resumes after `await Message.create(...)` and sends the message
\* to the room, the sender included.
ShareFileAfterCreate(c) ==
    /\ isSuspendedAt(c, "share_file", "Message.create")
    /\ LET messageData == awaiting[c][1].data
       IN  /\ cmd' = Command("share_file: Message.create", c, messageData)
           /\ Message' = messageCreated(Message, c, isMongoConnected)
           /\ out' = IF currentRoom[c] = None THEN <<>>
                     ELSE ToRoom(joined, currentRoom[c][1], "chat message", messageData)
    /\ awaiting' = Resumed(c)
    /\ UNCHANGED <<live, closure, joined, store, now, isMongoConnected, User, Room, Session>>

(***************************************************************************)
(* src/unnamed/part_002: the file-backed server, which keeps a member list *)
(* in every room.  chat_data.json is read at startup only: saveData is     *)
(* left out, and a handler runs to its end before the next event.          *)
(***************************************************************************)
\* rooms[roomName].members.filter(m => m.id !== socket.id)
membersWithout(members, sid) == SelectSeq(members, LAMBDA m : m.id # sid)

\* room.members.some(m => m.id === socket.id)
isMember(members, sid) == \E i \in 1..Len(members) : members[i].id = sid

\* room.bans.find(b => b.user === username && b.expiresAt > Date.now())
fileBanFound(roomBans, username) ==
    \E i \in 1..Len(roomBans) : roomBans[i].user = username /\ roomBans[i].expiresAt > now

\* The reason part_002's register handler refuses, None when it accepts.
fileRegisterError(username, password) ==
    IF username = "" \/ password = "" THEN Some("Username and password required")
    ELSE IF Len(username) < 3 THEN Some("Username must be at least 3 characters")
    ELSE IF Len(password) < 4 THEN Some("Password must be at least 4 characters")
    ELSE IF username \in DOMAIN fileUsers THEN Some("Username already exists")
    ELSE None

FileRegister(c, username, password) ==
    /\ c \in live
    /\ cmd' = Command("register", c, [username |-> username, password |-> password])
    /\ LET err == fileRegisterError(username, password)
       IN  IF err # None
           THEN /\ out' = ToSocket(c, "auth_error", [message |-> err[1]])
                /\ UNCHANGED <<fileUsers, userSessions>>
           ELSE /\ fileUsers' = MapSet(fileUsers, username, password)
                /\ userSessions' = MapSet(userSessions, c, username)
                /\ out' = ToSocket(c, "auth_success", [username |-> username])
    /\ UNCHANGED <<live, joined, fileRooms, userRooms, banTimers, now>>

FileLogin(c, username, password) ==
    /\ c \in live
    /\ cmd' = Command("login", c, [username |-> username, password |-> password])
    /\ IF username = "" \/ password = ""
       THEN /\ out' = ToSocket(c, "auth_error", [message |-> "Username and password required"])
            /\ UNCHANGED userSessions
       ELSE IF username \notin DOMAIN fileUsers
       THEN /\ out' = ToSocket(c, "auth_error", [message |-> "Username not found"])
            /\ UNCHANGED userSessions
       ELSE IF fileUsers[username] # password
       THEN /\ out' = ToSocket(c, "auth_error", [message |-> "Incorrect password"])
            /\ UNCHANGED userSessions
       ELSE /\ userSessions' = MapSet(userSessions, c, username)
            /\ out' = ToSocket(c, "auth_success", [username |-> username])
    /\ UNCHANGED <<live, joined, fileUsers, fileRooms, userRooms, banTimers, now>>

FileLogout(c) ==
    /\ c \in live
    /\ cmd' = Command("logout", c, <<>>)
    /\ IF c \in DOMAIN userSessions
       THEN /\ userSessions' = MapDelete(userSessions, c)
            /\ out' = ToSocket(c, "logged_out", <<>>)
       ELSE /\ out' = <<>>
            /\ UNCHANGED userSessions
    /\ UNCHANGED <<live, joined, fileUsers, fileRooms, userRooms, banTimers, now>>

\* The rooms_list payload of part_002's get_rooms.
fileRoomsList ==
    [name \in DOMAIN fileRooms |->
        [hasPassword |-> fileRooms[name].password # "",
         members |-> Len(fileRooms[name].members)]]

FileGetRooms(c) ==
    /\ c \in live
    /\ cmd' = Command("get_rooms", c, <<>>)
    /\ out' = IF c \notin DOMAIN userSessions
              THEN ToSocket(c, "auth_error", [message |-> "Not authenticated"])
              ELSE ToSocket(c, "rooms_list", fileRoomsList)
    /\ UNCHANGED <<live, joined, file, now>>

FileCreateRoom(c, roomName, password) ==
    /\ c \in live
    /\ cmd' = Command("create_room", c, [roomName |-> roomName, password |-> password])
    /\ IF c \notin DOMAIN userSessions
       THEN /\ out' = ToSocket(c, "auth_error", [message |-> "Not authenticated"])
            /\ UNCHANGED <<joined, fileRooms, userRooms>>
       ELSE IF isBlank(roomName)
       THEN /\ out' = ErrorTo(c, "Room name cannot be empty")
            /\ UNCHANGED <<joined, fileRooms, userRooms>>
       ELSE IF roomName \in DOMAIN fileRooms
       THEN /\ out' = ErrorTo(c, "Room already exists")
            /\ UNCHANGED <<joined, fileRooms, userRooms>>
       ELSE LET username == userSessions[c]
            IN  /\ fileRooms' = MapSet(fileRooms, roomName,
                                       [password |-> password,
                                        members |-> <<[id |-> c, username |-> username]>>,
                                        messages |-> <<>>,
                                        isDefault |-> FALSE, bans |-> <<>>])
                /\ userRooms' = MapSet(userRooms, c, roomName)
                /\ joined' = [joined EXCEPT ![c] = @ \cup {roomName}]
                /\ out' = ToSocket(c, "joined_room",
                                   [roomName |-> roomName, username |-> username])
                          \o ToRoom(joined', roomName, "user_joined",
                                    [username |-> username, members |-> 1])
                          \o ToRoom(joined', roomName, "chat message",
                                    SystemMsg("Room created by", username))
                          \o ToAll("room_created",
                                   [name |-> roomName, hasPassword |-> password # "",
                                    members |-> 1])
    /\ UNCHANGED <<live, fileUsers, userSessions, banTimers, now>>

FileJoinRoom(c, roomName, password) ==
    /\ c \in live
    /\ cmd' = Command("join_room", c, [roomName |-> roomName, password |-> password])
    /\ IF c \notin DOMAIN userSessions
       THEN /\ out' = ToSocket(c, "auth_error", [message |-> "Not authenticated"])
            /\ UNCHANGED <<joined, fileRooms, userRooms>>
       ELSE IF roomName \notin DOMAIN fileRooms
       THEN /\ out' = ErrorTo(c, "Room does not exist")
            /\ UNCHANGED <<joined, fileRooms, userRooms>>
       ELSE IF fileBanFound(fileRooms[roomName].bans, userSessions[c])
       THEN /\ out' = ErrorTo(c, "You are banned from this room")
            /\ UNCHANGED <<joined, fileRooms, userRooms>>
       ELSE IF fileRooms[roomName].password # "" /\ fileRooms[roomName].password # password
       THEN /\ out' = ErrorTo(c, "Incorrect password")
            /\ UNCHANGED <<joined, fileRooms, userRooms>>
       ELSE IF isMember(fileRooms[roomName].members, c)
       THEN /\ out' = ErrorTo(c, "Already in this room")
            /\ UNCHANGED <<joined, fileRooms, userRooms>>
       ELSE LET username == userSessions[c]
                members == Append(fileRooms[roomName].members,
                                  [id |-> c, username |-> username])
            IN  /\ fileRooms' = [fileRooms EXCEPT ![roomName].members = members]
                /\ userRooms' = MapSet(userRooms, c, roomName)
                /\ joined' = [joined EXCEPT ![c] = @ \cup {roomName}]
                /\ out' = ToSocket(c, "joined_room",
                                   [roomName |-> roomName, username |-> username])
                          \o ToSocket(c, "room_history",
                                      [messages |-> fileRooms[roomName].messages])
                          \o ToRoom(joined', roomName, "user_joined",
                                    [username |-> username, members |-> Len(members)])
                          \o ToRoom(joined', roomName, "chat message",
                                    SystemMsg("joined the room", username))
    /\ UNCHANGED <<live, fileUsers, userSessions, banTimers, now>>

\* leave_room takes the room from the payload.
FileLeaveRoom(c, roomName) ==
    /\ c \in live
    /\ cmd' = Command("leave_room", c, [roomName |-> roomName])
    /\ IF roomName # "" /\ roomName \in DOMAIN fileRooms /\ c \in DOMAIN userSessions
       THEN LET members == membersWithout(fileRooms[roomName].members, c)
                deleted == Len(members) = 0 /\ ~fileRooms[roomName].isDefault
            IN  /\ fileRooms' = IF deleted THEN MapDelete(fileRooms, roomName)
                                ELSE [fileRooms EXCEPT ![roomName].members = members]
                /\ joined' = [joined EXCEPT ![c] = @ \ {roomName}]
                /\ out' = ToRoom(joined, roomName, "user_left",
                                 [username |-> userSessions[c], members |-> Len(members)])
                          \o (IF deleted THEN ToAll("room_deleted", [name |-> roomName])
                              ELSE <<>>)
       ELSE /\ out' = <<>>
            /\ UNCHANGED <<joined, fileRooms>>
    /\ userRooms' = MapDelete(userRooms, c)
    /\ UNCHANGED <<live, fileUsers, userSessions, banTimers, now>>

\* socket.on('disconnect'); socket.io has already taken the socket out of every
\* room when the handler runs.
FileDisconnect(c) ==
    /\ c \in live
    /\ live' = live \ {c}
    /\ joined' = [joined EXCEPT ![c] = {}]
    /\ cmd' = Command("disconnect", c, <<>>)
    /\ IF c \in DOMAIN userRooms /\ userRooms[c] \in DOMAIN fileRooms
       THEN LET roomName == userRooms[c]
                members == membersWithout(fileRooms[roomName].members, c)
                deleted == Len(members) = 0 /\ ~fileRooms[roomName].isDefault
                others == [joined EXCEPT ![c] = {}]
            IN  /\ fileRooms' = IF deleted THEN MapDelete(fileRooms, roomName)
                                ELSE [fileRooms EXCEPT ![roomName].members = members]
                /\ out' = ToEach(1, {x \in live' : roomName \in others[x]}, "user_left",
                                 [username |-> IF c \in DOMAIN userSessions
                                               THEN Some(userSessions[c]) ELSE None,
                                  members |-> Len(members)])
                          \o (IF c \in DOMAIN userSessions
                              THEN ToEach(1, {x \in live' : roomName \in others[x]},
                                          "chat message",
                                          SystemMsg("left the room", userSessions[c]))
                              ELSE <<>>)
                          \o (IF deleted
                              THEN ToEach(1, live', "room_deleted", [name |-> roomName])
                              ELSE <<>>)
       ELSE /\ out' = <<>>
            /\ UNCHANGED fileRooms
    /\ userRooms' = MapDelete(userRooms, c)
    /\ userSessions' = MapDelete(userSessions, c)
    /\ UNCHANGED <<fileUsers, banTimers, now>>

\* The duration ban_user of part_002 computes, in minutes: the unit may be
\* left out and is then minutes, and an empty string gives the default.
fileBanDuration(duration) ==
    IF duration # <<>> /\ \A i \in 1..Len(duration) : duration[i] \in Digits
    THEN parseIntDigits(duration)
    ELSE IF durationMatches(duration, {"h", "m", "d"})
    THEN LET value == parseIntDigits(SubSeq(duration, 1, Len(duration) - 1))
             unit == duration[Len(duration)]
         IN  CASE unit = "h" -> value * 60
               [] unit = "m" -> value
               [] unit = "d" -> value * 24 * 60
    ELSE 10

\* rooms[roomName].bans.filter(b => b.user !== bannedUser)
bansWithout(roomBans, username) == SelectSeq(roomBans, LAMBDA b : b.user # username)

\* ban_user takes the room, the banned user and the banning user's name from
\* the payload, and leaves a timer behind that lifts the ban.
FileBanUser(c, roomName, bannedUser, duration, bannerName) ==
    /\ c \in live
    /\ cmd' = Command("ban_user", c, [roomName |-> roomName, bannedUser |-> bannedUser,
                                      duration |-> duration, bannerName |-> bannerName])
    /\ IF roomName \notin DOMAIN fileRooms
       THEN /\ out' = ErrorTo(c, "Room does not exist")
            /\ UNCHANGED <<fileRooms, banTimers>>
       ELSE LET durationMs == fileBanDuration(duration)
                expiresAt == now + durationMs
            IN  /\ fileRooms' =
                      [fileRooms EXCEPT ![roomName].bans =
                          Append(bansWithout(@, bannedUser),
                                 [user |-> bannedUser, expiresAt |-> expiresAt,
                                  bannedBy |-> bannerName, bannedAt |-> now])]
                /\ out' = ToRoom(joined, roomName, "user_banned",
                                 [bannedUser |-> bannedUser, bannerName |-> bannerName])
                          \o ToRoom(joined, roomName, "chat message",
                                    SystemMsg("banned from the room", bannedUser))
                /\ banTimers' = Append(banTimers,
                                       [roomName |-> roomName, bannedUser |-> bannedUser,
                                        due |-> now + durationMs])
    /\ UNCHANGED <<live, joined, fileUsers, userSessions, userRooms, now>>

\* The callback ban_user handed to setTimeout runs, once its delay has passed.
AutoUnban(i) ==
    /\ i \in 1..Len(banTimers)
    /\ banTimers[i].due <= now
    /\ LET roomName == banTimers[i].roomName
           bannedUser == banTimers[i].bannedUser
       IN  /\ cmd' = Command("auto-unban", "", [roomName |-> roomName,
                                                bannedUser |-> bannedUser])
           /\ IF roomName \in DOMAIN fileRooms
              THEN /\ fileRooms' = [fileRooms EXCEPT ![roomName].bans =
                                                       bansWithout(@, bannedUser)]
                   /\ out' = ToRoom(joined, roomName, "user_unbanned",
                                    [unbannedUser |-> bannedUser,
                                     unbannerName |-> "System (Auto)"])
                             \o ToRoom(joined, roomName, "chat message",
                                       SystemMsg("Ban expired", bannedUser))
              ELSE /\ out' = <<>>
                   /\ UNCHANGED fileRooms
    /\ banTimers' = SubSeq(banTimers, 1, i - 1) \o SubSeq(banTimers, i + 1, Len(banTimers))
    /\ UNCHANGED <<live, joined, fileUsers, userSessions, userRooms, now>>

FileUnbanUser(c, roomName, unbannedUser, unbannerName) ==
    /\ c \in live
    /\ cmd' = Command("unban_user", c, [roomName |-> roomName,
                                        unbannedUser |-> unbannedUser,
                                        unbannerName |-> unbannerName])
    /\ IF roomName \notin DOMAIN fileRooms
       THEN /\ out' = ErrorTo(c, "Room does not exist")
            /\ UNCHANGED fileRooms
       ELSE /\ fileRooms' = [fileRooms EXCEPT ![roomName].bans =
                                                bansWithout(@, unbannedUser)]
            /\ out' = ToRoom(joined, roomName, "user_unbanned",
                             [unbannedUser |-> unbannedUser,
                              unbannerName |-> unbannerName])
                      \o ToRoom(joined, roomName, "chat message",
                                SystemMsg("unbanned by " \o unbannerName, unbannedUser))
    /\ UNCHANGED <<live, joined, fileUsers, userSessions, userRooms, banTimers, now>>

(***************************************************************************)
(* Specifications.  Each one explores the handlers a group of properties   *)
(* is about, for a small set of clients and inputs.  The bounds stand in   *)
(* the disjuncts of the next-state relations, never in the handlers.       *)
(***************************************************************************)
MaxMsgs == 1        \* no command appends to a history that holds this many
MaxTime == 2        \* the clock stops advancing here

Secrets == {"", ADMIN_PASSWORD}
RoomNames == {"Main", "Lounge"}
RoomPasswords == {"", "x"}

\* The history a command of connection c would append to has room left.
HistoryHasRoom(c) ==
    IF currentRoom[c] = None THEN TRUE
    ELSE IF currentRoom[c][1] \notin DOMAIN rooms THEN TRUE
    ELSE Len(rooms[currentRoom[c][1]].messages) < MaxMsgs

(***************************************************************************)
(* Room life cycle: an admin and an ordinary user on two connections, the  *)
(* default room and one created room.                                      *)
(***************************************************************************)
Clients == {"c1", "c2"}
\* The account each client signs in to.
AccountOf == [c1 |-> <<"admin", ADMIN_PASSWORD>>, c2 |-> <<"bob", "pass">>]

Next ==
    \/ \E c \in Clients : Connect(c) /\ UNCHANGED <<mongo, file>>
    \/ \E c \in Clients : Disconnect(c) /\ UNCHANGED <<mongo, file>>
    \/ \E c \in Clients : Login(c, AccountOf[c][1], AccountOf[c][2]) /\ UNCHANGED <<mongo, file>>
    \/ \E c \in Clients : Logout(c) /\ UNCHANGED <<mongo, file>>
    \/ \E c \in Clients : CreateRoom(c, "Lounge", "x") /\ UNCHANGED <<mongo, file>>
    \/ \E c \in Clients, r \in RoomNames, pw \in RoomPasswords : JoinRoom(c, r, pw) /\ UNCHANGED <<mongo, file>>
    \/ \E c \in Clients : HistoryHasRoom(c) /\ LeaveRoom(c) /\ UNCHANGED <<mongo, file>>
    \/ \E c \in Clients, r \in RoomNames, pw \in Secrets : DeleteRoom(c, r, pw) /\ UNCHANGED <<mongo, file>>

Spec == Init /\ [][Next]_vars

(***************************************************************************)
(* Properties of the room life cycle                                       *)
(***************************************************************************)
\* The last command was `op`, sent on a connection that was authenticated and
\* still is.
Handled(op) == cmd.op = op /\ currentUser[cmd.conn] # None

\* C3: when the last session whose current room is a non-default room R
\* disconnects, R is removed from the room store and room_deleted is broadcast.
C3_DisconnectReclaims ==
    [][\A c \in Conns, R \in RoomNames \ {"Main"} :
          ( /\ cmd'.op = "disconnect" /\ cmd'.conn = c
            /\ R \in DOMAIN rooms
            /\ c \in DOMAIN sessions
            /\ sessions[c].roomName = Some(R)
            /\ memberCount(sessions', R) = 0 )
          => /\ R \notin DOMAIN rooms'
             /\ \E i \in 1..Len(out') : out'[i].ev = "room_deleted"]_vars

\* C4: a leave_room that brings the member count of a non-default room R to
\* zero deletes R, which then is no entry of rooms_list; a leave_room that
\* leaves another session in R keeps R; the default room stays when its last
\* member leaves.
C4_LeaveReclaims ==
    [][\A c \in Conns, R \in RoomNames :
          ( /\ cmd'.op = "leave_room" /\ cmd'.conn = c
            /\ currentUser[c] # None
            /\ currentRoom[c] = Some(R) )
          => LET members == memberCount(sessions', R)
             IN  /\ (members = 0 /\ R # DefaultRoom)
                        => (R \notin DOMAIN rooms' /\ R \notin DOMAIN roomsList')
                 /\ (members > 0 /\ R \in DOMAIN rooms)
                        => (R \in DOMAIN rooms' /\ R \in DOMAIN roomsList')
                 /\ DefaultRoom \in DOMAIN roomsList']_vars

\* A leave_room has just emptied and deleted the created room while the
\* default room, also without members, is still listed.
C4_Witness ==
    /\ cmd.op = "leave_room"
    /\ \E i \in 1..Len(out) : out[i].ev = "room_deleted" /\ out[i].data.name = "Lounge"
    /\ "Lounge" \notin DOMAIN roomsList
    /\ roomsList[DefaultRoom].members = 0

\* C5: the default room is in the room store in every reachable state, and a
\* delete_room for it is answered with an error whatever the caller's rank and
\* whatever password is supplied.
C5_DefaultRoomStays ==
    /\ DefaultRoom \in DOMAIN rooms
    /\ rooms[DefaultRoom].isDefault
    /\ \A rank \in Ranks, pw \in Secrets :
          deleteOutcome(rank, DefaultRoom, pw) \in {"no permission", "password", "default room"}
    /\ (Handled("delete_room") /\ cmd.arg.roomName = DefaultRoom)
          => Emitted(cmd.conn, "error")

\* An admin has just asked to delete the default room and got the error.
C5_Witness ==
    /\ Handled("delete_room")
    /\ cmd.arg.roomName = DefaultRoom
    /\ userRank[cmd.conn] = "admin"
    /\ Emitted(cmd.conn, "error")
    /\ DefaultRoom \in DOMAIN rooms

(***************************************************************************)
(* Bans: the admin and the ordinary user, the default room and a room with *)
(* a password.                                                             *)
(***************************************************************************)
\* C15: when delete_room(R) succeeds, R is removed and every member is forced
\* out of it: right after the deletion no session has R as its current room.
C15_DeleteEvicts ==
    [][\A R \in RoomNames :
          ( /\ cmd'.op = "delete_room" /\ cmd'.arg.roomName = R
            /\ R \in DOMAIN rooms )
          => ( R \notin DOMAIN rooms'
                 => /\ \A sid \in DOMAIN sessions' : sessions'[sid].roomName # Some(R)
                    /\ \A c \in live' : currentRoom'[c] # Some(R) /\ R \notin joined'[c] )]_vars

\* C17: when a session that is in room R logs out, the room-leave sequence
\* runs before the session is destroyed: the remaining members of R get the
\* leave notification and, if the session was the last member of a non-default
\* R, R is deleted.
C17_LogoutLeavesFirst ==
    [][\A c \in Conns, R \in RoomNames :
          ( /\ cmd'.op = "logout" /\ cmd'.conn = c
            /\ currentUser[c] # None
            /\ currentRoom[c] = Some(R) )
          => /\ \A x \in live \ {c} :
                   R \in joined[x]
                     => \E i \in 1..Len(out') : out'[i].to = x /\ out'[i].ev = "user_left"
             /\ ( /\ R # DefaultRoom
                  /\ \A sid \in DOMAIN sessions' : sessions'[sid].roomName # Some(R) )
                => R \notin DOMAIN rooms']_vars

\* C18: a successful join_room or create_room by a session that is already in
\* another room P first leaves P: afterwards the connection is a member of
\* exactly the new room, and a non-default P left without members no longer
\* exists.
C18_JoinLeavesPrevious ==
    [][\A c \in Conns, P \in RoomNames, R \in RoomNames :
          ( /\ cmd'.op \in {"join_room", "create_room"} /\ cmd'.conn = c
            /\ cmd'.arg.roomName = R
            /\ currentRoom[c] = Some(P) /\ P # R
            /\ \E i \in 1..Len(out') : out'[i].to = c /\ out'[i].ev = "joined_room" )
          => /\ joined'[c] = {R}
             /\ currentRoom'[c] = Some(R)
             /\ ( /\ P # DefaultRoom
                  /\ \A sid \in DOMAIN sessions' : sessions'[sid].roomName # Some(P) )
                => P \notin DOMAIN rooms']_vars

\* C19: a login for a username absent from the user directory fails with an
\* auth error, creates no user and creates no session.
C19_LoginNeverCreates ==
    [][\A c \in Conns :
          ( /\ cmd'.op = "login" /\ cmd'.conn = c
            /\ cmd'.arg.username \notin DOMAIN users )
          => /\ \E i \in 1..Len(out') : out'[i].to = c /\ out'[i].ev = "auth_error"
             /\ users' = users
             /\ sessions' = sessions]_vars

BanDurations == {<<"1", "h">>, <<"5", "m">>}

NextBan ==
    \/ \E c \in Clients : Connect(c) /\ UNCHANGED <<mongo, file>>
    \/ \E c \in Clients : Login(c, AccountOf[c][1], AccountOf[c][2]) /\ UNCHANGED <<mongo, file>>
    \/ \E c \in Clients : CreateRoom(c, "Lounge", "x") /\ UNCHANGED <<mongo, file>>
    \/ \E c \in Clients, r \in RoomNames, pw \in RoomPasswords : JoinRoom(c, r, pw) /\ UNCHANGED <<mongo, file>>
    \/ \E c \in Clients : HistoryHasRoom(c) /\ LeaveRoom(c) /\ UNCHANGED <<mongo, file>>
    \/ \E c \in Clients, d \in BanDurations : BanUser(c, "bob", d, "") /\ UNCHANGED <<mongo, file>>
    \/ \E c \in Clients : UnbanUser(c, "bob", "") /\ UNCHANGED <<mongo, file>>

SpecBan == Init /\ [][NextBan]_vars

\* An active ban: a ban record for (room, user) that has not expired.
activeBan(b, t, roomName, username) ==
    /\ roomName \in DOMAIN b
    /\ username \in DOMAIN b[roomName]
    /\ t < b[roomName][username].expiresAt

\* C1: a join_room for R issued by a user with an active ban for R fails: the
\* caller gets an error and its current room is unchanged, whatever password
\* it supplies.
C1_BannedCannotJoin ==
    [][\A c \in Conns, R \in RoomNames :
          ( /\ cmd'.op = "join_room" /\ cmd'.conn = c
            /\ cmd'.arg.roomName = R
            /\ currentUser[c] # None
            /\ activeBan(bans, now, R, currentUser[c][1]) )
          => /\ currentRoom'[c] = currentRoom[c]
             /\ \E i \in 1..Len(out') : out'[i].to = c /\ out'[i].ev = "error"]_vars

\* C2: in the state right after a ban_user that succeeds in room R, no session
\* of the banned user has R as its current room.
C2_BanEvicts ==
    [][\A c \in Conns, R \in RoomNames :
          ( /\ cmd'.op = "ban_user" /\ cmd'.conn = c
            /\ currentRoom[c] = Some(R)
            /\ \E i \in 1..Len(out') : out'[i].ev = "user_banned" )
          => \A sid \in DOMAIN sessions' :
                sessions'[sid].username = cmd'.arg.bannedUser
                    => /\ sessions'[sid].roomName # Some(R)
                       /\ currentRoom'[sid] # Some(R)
                       /\ R \notin joined'[sid]]_vars

(***************************************************************************)
(* Mutes: in the default room the admin mutes and unmutes the ordinary     *)
(* user, who chats and shares files, while the clock advances past the     *)
(* shorter mute.                                                           *)
(***************************************************************************)
MuteDurations == {<<"1", "m">>, <<"s", "o", "o", "n">>}

NextMute ==
    \/ \E c \in Clients : Connect(c) /\ UNCHANGED <<mongo, file>>
    \/ \E c \in Clients : Login(c, AccountOf[c][1], AccountOf[c][2]) /\ UNCHANGED <<mongo, file>>
    \/ \E c \in Clients : JoinRoom(c, "Main", "") /\ UNCHANGED <<mongo, file>>
    \/ \E c \in Clients : HistoryHasRoom(c) /\ LeaveRoom(c) /\ UNCHANGED <<mongo, file>>
    \/ \E c \in Clients, d \in MuteDurations : MuteUser(c, "bob", d) /\ UNCHANGED <<mongo, file>>
    \/ \E c \in Clients : UnmuteUser(c, "bob") /\ UNCHANGED <<mongo, file>>
    \/ \E c \in Clients : HistoryHasRoom(c) /\ ChatMessage(c, "hi") /\ UNCHANGED <<mongo, file>>
    \/ \E c \in Clients : HistoryHasRoom(c) /\ ShareFile(c, "a.png") /\ UNCHANGED <<mongo, file>>
    \/ now < MaxTime /\ Tick /\ UNCHANGED <<mongo, file>>

SpecMute == Init /\ [][NextMute]_vars

\* A mute in force: a mute record for (user, room) that has not expired.
activeMute(m, t, username, roomName) ==
    /\ muteKeyOf(username, roomName) \in DOMAIN m
    /\ t < m[muteKeyOf(username, roomName)].expiresAt

\* The message is what the handler appended to the room's history.
AppendedTo(roomName, username) ==
    /\ roomName \in DOMAIN rooms'
    /\ rooms'[roomName].messages # <<>>
    /\ rooms'[roomName].messages =
          pushBounded(rooms[roomName].messages,
                      rooms'[roomName].messages[Len(rooms'[roomName].messages)],
                      HistoryCap)
    /\ rooms'[roomName].messages[Len(rooms'[roomName].messages)].username = username

\* Every other socket in the room got the 'chat message' event.
BroadcastIn(roomName, sender) ==
    \A x \in live \ {sender} :
        roomName \in joined[x]
            => \E i \in 1..Len(out') : out'[i].to = x /\ out'[i].ev = "chat message"

\* No event of the handler went to any socket but the sender's.
NothingToOthers(sender) == \A i \in 1..Len(out') : out'[i].to = sender

\* C7: a 'chat message' sent in room R by a user who is muted in R is neither
\* appended to R's history nor sent to any other socket; right after a
\* successful unmute_user the user is no longer muted in R, and a chat message
\* of a user who is not muted in R is appended to R's history and broadcast.
C7_MuteSilences ==
    [][\A c \in Conns, R \in RoomNames :
          /\ ( /\ cmd'.op = "chat message" /\ cmd'.conn = c
               /\ currentUser[c] # None /\ currentRoom[c] = Some(R)
               /\ activeMute(mutes, now, currentUser[c][1], R) )
             => (rooms' = rooms /\ NothingToOthers(c))
          /\ ( /\ cmd'.op = "unmute_user" /\ cmd'.conn = c
               /\ currentRoom[c] = Some(R)
               /\ \E i \in 1..Len(out') : out'[i].ev = "user_unmuted" )
             => ~activeMute(mutes', now', cmd'.arg.unmutedUser, R)
          /\ ( /\ cmd'.op = "chat message" /\ cmd'.conn = c
               /\ currentUser[c] # None /\ currentRoom[c] = Some(R)
               /\ R \in DOMAIN rooms
               /\ ~activeMute(mutes, now, currentUser[c][1], R) )
             => (AppendedTo(R, currentUser[c][1]) /\ BroadcastIn(R, c))]_vars

\* The muted user has just sent a chat message: it got the mute notice and the
\* history of the room, where the admin is too, was left empty.
C7_Witness ==
    /\ Handled("chat message")
    /\ currentUser[cmd.conn] = Some("bob")
    /\ currentRoom[cmd.conn] = Some("Main")
    /\ activeMute(mutes, now, "bob", "Main")
    /\ Emitted(cmd.conn, "system_message")
    /\ rooms["Main"].messages = <<>>
    /\ \E x \in live \ {cmd.conn} : "Main" \in joined[x]

\* C8: a share_file issued by a user who is muted in the current room is
\* rejected: nothing is appended to the room's history and nothing is sent to
\* any other socket.
C8_MutedCannotShare ==
    [][\A c \in Conns, R \in RoomNames :
          ( /\ cmd'.op = "share_file" /\ cmd'.conn = c
            /\ currentUser[c] # None /\ currentRoom[c] = Some(R)
            /\ activeMute(mutes, now, currentUser[c][1], R) )
          => (rooms' = rooms /\ NothingToOthers(c))]_vars

(***************************************************************************)
(* Rank ordering of sanctions: the owner grants ranks to two accounts; the *)
(* second client signs in again to act with its new rank and sanctions     *)
(* accounts of every rank, a name without an account among them.           *)
(***************************************************************************)
RankAccountOf == [c1 |-> <<OWNER_USERNAME, ADMIN_PASSWORD>>, c2 |-> <<"bob", "pass">>]
Grantable == {"admin", "moderator", "vip", "member"}
SanctionTargets == {OWNER_USERNAME, "admin", "eve"}
MaxSanctions == 1

\* The number of ban and mute records the store holds.
sanctionCount ==
    Cardinality(DOMAIN mutes)
      + (IF "Main" \in DOMAIN bans THEN Cardinality(DOMAIN bans["Main"]) ELSE 0)

NextRank ==
    \/ \E c \in Clients : Connect(c) /\ UNCHANGED <<mongo, file>>
    \/ \E c \in Clients : Login(c, RankAccountOf[c][1], RankAccountOf[c][2]) /\ UNCHANGED <<mongo, file>>
    \/ \E c \in Clients : JoinRoom(c, "Main", "") /\ UNCHANGED <<mongo, file>>
    \/ \E r \in Grantable : GrantRank("c1", "bob", r, "") /\ UNCHANGED <<mongo, file>>
    \/ \E r \in {"moderator", "vip"} : GrantRank("c1", "admin", r, "") /\ UNCHANGED <<mongo, file>>
    \/ \E c \in Clients, t \in SanctionTargets :
            sanctionCount < MaxSanctions /\ BanUser(c, t, <<"1", "h">>, ADMIN_PASSWORD) /\ UNCHANGED <<mongo, file>>
    \/ \E c \in Clients, t \in SanctionTargets :
            sanctionCount < MaxSanctions /\ MuteUser(c, t, <<"1", "h">>) /\ UNCHANGED <<mongo, file>>

SpecRank == Init /\ [][NextRank]_vars

\* The levels the rank ordering is stated with.
Level == [owner |-> 1, admin |-> 2, moderator |-> 3, vip |-> 4, member |-> 5]

\* The rank recorded for a name in the user directory, member when it has none.
DirectoryRank(username) ==
    IF username \in DOMAIN users THEN users[username].rank ELSE "member"

\* The rank ordering by itself.
StrictlyAbove(a, b) == Level[a] < Level[b] \/ a = "owner"

\* The ranks whose permissions include sanctioning.
Sanctioners == {"owner", "admin", "moderator"}

\* The handler applied the sanction: the caller, a member of the room, got the
\* room's notification.
Applied(c, ev) == \E i \in 1..Len(out') : out'[i].to = c /\ out'[i].ev = ev

\* The caller of a sanction command is signed in, in a room and not muted there.
CanCommand(c) ==
    /\ currentUser[c] # None
    /\ currentRoom[c] # None
    /\ ~activeMute(mutes, now, currentUser[c][1], currentRoom[c][1])

GrantedRank(c) == DirectoryRank(currentUser[c][1])

\* C12: after a successful grant_rank every later permission check on the
\* target's connection uses the new rank, without a new login: a ban_user or
\* mute_user is decided by the rank the directory holds for the caller.
C12_GrantVisibleAtOnce ==
    [][\A c \in Conns :
          /\ ( /\ cmd'.op = "ban_user" /\ cmd'.conn = c
               /\ CanCommand(c)
               /\ cmd'.arg.password = ADMIN_PASSWORD )
             => ( Applied(c, "user_banned")
                    <=> ( /\ GrantedRank(c) \in Sanctioners
                          /\ StrictlyAbove(GrantedRank(c),
                                           DirectoryRank(cmd'.arg.bannedUser)) ) )
          /\ ( /\ cmd'.op = "mute_user" /\ cmd'.conn = c
               /\ CanCommand(c) )
             => ( Applied(c, "user_muted")
                    <=> ( /\ GrantedRank(c) \in Sanctioners
                          /\ StrictlyAbove(GrantedRank(c),
                                           DirectoryRank(cmd'.arg.mutedUser)) ) )]_vars

(***************************************************************************)
(* Private messages: the owner, an admin and a third account are online;   *)
(* the owner grants the third account ranks and the accounts exchange      *)
(* private messages.                                                       *)
(***************************************************************************)
PMClients == {"c1", "c2", "c3"}
PMAccountOf == [c1 |-> <<OWNER_USERNAME, ADMIN_PASSWORD>>,
                c2 |-> <<"bob", "pass">>,
                c3 |-> <<"admin", ADMIN_PASSWORD>>]
PMRecipients == {OWNER_USERNAME, "bob", "admin"}

NextPM ==
    \/ \E c \in PMClients : Connect(c) /\ UNCHANGED <<mongo, file>>
    \/ \E c \in PMClients : Login(c, PMAccountOf[c][1], PMAccountOf[c][2]) /\ UNCHANGED <<mongo, file>>
    \/ \E r \in Grantable : GrantRank("c1", "bob", r, "") /\ UNCHANGED <<mongo, file>>
    \/ \E c \in PMClients, to \in PMRecipients :
            Len(privateMessages) < MaxMsgs /\ PrivateMessage(c, to, "hi") /\ UNCHANGED <<mongo, file>>

SpecPM == Init /\ [][NextPM]_vars

\* The connection got an observer copy of the private message just sent.
GotObserverCopy(sid) ==
    \E i \in 1..Len(out') :
        /\ out'[i].to = sid
        /\ out'[i].ev = "private_message"
        /\ out'[i].data.adminView

\* C9: for every private message, a connected session that is neither the
\* sender's nor the recipient's receives an observer copy (adminView) if and
\* only if its rank is strictly higher than the sender's rank.
C9_CascadeIffHigher ==
    [][\A c \in Conns :
          ( /\ cmd'.op = "private_message" /\ cmd'.conn = c
            /\ c \in DOMAIN sessions
            /\ privateMessages' # privateMessages )
          => \A sid \in DOMAIN sessions :
                ( /\ sessions[sid].username # sessions[c].username
                  /\ sessions[sid].username # cmd'.arg.recipient )
                => ( GotObserverCopy(sid)
                       <=> Level[sessions[sid].rank] < Level[sessions[c].rank] )]_vars

\* The number of observer copies of the private message just sent that the
\* connection got.
ObserverCopies(sid) ==
    Cardinality({i \in 1..Len(out') : /\ out'[i].to = sid
                                      /\ out'[i].ev = "private_message"
                                      /\ out'[i].data.adminView})

\* C37: of a private message that was sent, every session gets at most one
\* observer copy (adminView), and a session of the owner, when the owner is
\* neither the sender nor the recipient, gets exactly one.
C37_OneObserverCopy ==
    [][\A c \in Conns :
          ( /\ cmd'.op = "private_message" /\ cmd'.conn = c
            /\ c \in DOMAIN sessions
            /\ privateMessages' # privateMessages )
          => \A sid \in DOMAIN sessions :
                /\ ObserverCopies(sid) <= 1
                /\ ( /\ sessions[sid].rank = "owner"
                     /\ sessions[sid].username # sessions[c].username
                     /\ sessions[sid].username # cmd'.arg.recipient )
                   => ObserverCopies(sid) = 1]_vars
(***************************************************************************)
(* Message history: an admin in the default room sends one message per     *)
(* clock tick, numbered with the tick, and may clear the room before the   *)
(* first one; a second client connects, joins and disconnects at any time. *)
(***************************************************************************)
MaxAppends == 150

\* The history of the default room.
history == rooms[DefaultRoom].messages

\* The message numbered with the current tick is the newest of the history.
sentNow == history # <<>> /\ history[Len(history)].message = ToString(now)

NextHistory ==
    \/ \E c \in Clients : Connect(c) /\ UNCHANGED <<mongo, file>>
    \/ Disconnect("c2") /\ UNCHANGED <<mongo, file>>
    \/ \E c \in Clients : Login(c, AccountOf[c][1], AccountOf[c][2]) /\ UNCHANGED <<mongo, file>>
    \/ \E c \in Clients : JoinRoom(c, DefaultRoom, "") /\ UNCHANGED <<mongo, file>>
    \/ history = <<>> /\ currentRoom["c1"] # None /\ ClearMessages("c1", "") /\ UNCHANGED <<mongo, file>>
    \/ ~sentNow /\ currentRoom["c1"] # None /\ ChatMessage("c1", ToString(now)) /\ UNCHANGED <<mongo, file>>
    \/ sentNow /\ now < MaxAppends /\ Tick /\ UNCHANGED <<mongo, file>>

SpecHistory == Init /\ [][NextHistory]_vars

\* The number of messages sent so far: they are numbered 0, 1, 2, ...
sentCount == IF sentNow THEN now + 1 ELSE now

\* The messages numbered first .. last - 1, oldest first.
NumberedRun(first, last) ==
    [i \in 1..(last - first) |->
        [username |-> "admin", message |-> ToString(first + i - 1),
         about |-> "", rank |-> "admin"]]

\* What a history has to hold after n numbered messages: the 100 most recently
\* appended messages, the notice of a clear that came first counting as one.
IsLatestHundred(h, n) ==
    IF h # <<>> /\ h[1].rank = "system"
    THEN n < 100 /\ Tail(h) = NumberedRun(0, n)
    ELSE h = NumberedRun(IF n > 100 THEN n - 100 ELSE 0, n)

\* C10: each room's history holds at most 100 messages, and after more than
\* 100 appends the room_history delivered on a join is exactly the 100 most
\* recently appended messages, oldest first.
C10_HistoryBound ==
    /\ \A r \in DOMAIN rooms : Len(rooms[r].messages) <= 100
    /\ IsLatestHundred(history, sentCount)
    /\ \A i \in 1..Len(out) :
          out[i].ev = "room_history"
            => /\ IsLatestHundred(out[i].data.messages, sentCount)
               /\ sentCount > 100 => Len(out[i].data.messages) = 100

\* After 150 messages the second client joins afresh and is delivered the
\* messages numbered 50 to 149.
C10_Witness ==
    /\ sentCount = 150
    /\ Handled("join_room") /\ cmd.conn = "c2"
    /\ \E i \in 1..Len(out) :
          /\ out[i].to = "c2" /\ out[i].ev = "room_history"
          /\ Len(out[i].data.messages) = 100
          /\ out[i].data.messages[1].message = "50"
          /\ out[i].data.messages[100].message = "149"

(***************************************************************************)
(* Disconnect cleanup: two clients sign in, move between rooms, log out    *)
(* and disconnect; the cleanup of a disconnected socket may run again.     *)
(***************************************************************************)
NextDisconnect ==
    \/ \E c \in Clients : Connect(c) /\ UNCHANGED <<mongo, file>>
    \/ \E c \in Clients : Login(c, AccountOf[c][1], AccountOf[c][2]) /\ UNCHANGED <<mongo, file>>
    \/ \E c \in Clients : CreateRoom(c, "Lounge", "") /\ UNCHANGED <<mongo, file>>
    \/ \E c \in Clients, r \in RoomNames : JoinRoom(c, r, "") /\ UNCHANGED <<mongo, file>>
    \/ \E c \in Clients : Logout(c) /\ UNCHANGED <<mongo, file>>
    \/ \E c \in Clients : Disconnect(c) /\ UNCHANGED <<mongo, file>>
    \/ \E c \in Clients : DisconnectAgain(c) /\ UNCHANGED <<mongo, file>>

SpecDisconnect == Init /\ [][NextDisconnect]_vars

\* The member count of a room as get_rooms and leave_room report it, counted
\* here from the session registry alone.
MembersOf(sess, roomName) ==
    Cardinality({sid \in DOMAIN sess : sess[sid].roomName = Some(roomName)})

\* C11: running the disconnect cleanup twice for the same connection, or once
\* after a logout already removed the session, leaves the stores as a single
\* cleanup leaves them, and no member count is ever below zero.
C11_DisconnectIdempotent ==
    [][/\ \A c \in Conns :
            ( /\ cmd'.conn = c
              /\ \/ cmd'.op = "disconnect again"
                 \/ cmd'.op = "disconnect" /\ c \notin DOMAIN sessions )
            => store' = store
       /\ \A c \in Conns :
            (cmd'.conn = c /\ cmd'.op \in {"disconnect", "disconnect again"})
            => /\ c \notin DOMAIN sessions'
               /\ \A sid \in DOMAIN sessions \ {c} :
                     sid \in DOMAIN sessions' /\ sessions'[sid] = sessions[sid]
               /\ <<users, rooms, bans, mutes, privateMessages>>'
                     = <<users, rooms, bans, mutes, privateMessages>>
       /\ \A r \in DOMAIN rooms' : MembersOf(sessions', r) >= 0
       /\ \A i \in 1..Len(out') :
            out'[i].ev \in {"user_left", "user_joined"} => out'[i].data.members >= 0]_vars

\* The cleanup has just run a second time for a socket that was in a room
\* which another session is still in.
C11_Witness ==
    /\ cmd.op = "disconnect again"
    /\ currentUser[cmd.conn] # None
    /\ currentRoom[cmd.conn] # None
    /\ MembersOf(sessions, currentRoom[cmd.conn][1]) = 1
    /\ Emitted(CHOOSE x \in Conns : x # cmd.conn /\ x \in DOMAIN sessions, "user_left")

(***************************************************************************)
(* Granting ranks: the owner and a second account, which signs in again to *)
(* act with a rank it was granted, grant every rank to the seeded and the  *)
(* created accounts and to a name without an account.                      *)
(***************************************************************************)
GrantTargets == {"admin", "bob", "eve"}
NewRanks == Ranks \cup {"wizard"}

NextGrant ==
    \/ \E c \in Clients : Connect(c) /\ UNCHANGED <<mongo, file>>
    \/ \E c \in Clients : Login(c, RankAccountOf[c][1], RankAccountOf[c][2]) /\ UNCHANGED <<mongo, file>>
    \/ \E t \in GrantTargets, r \in NewRanks : GrantRank("c1", t, r, "") /\ UNCHANGED <<mongo, file>>
    \/ \E t \in GrantTargets, r \in NewRanks, pw \in Secrets : GrantRank("c2", t, r, pw) /\ UNCHANGED <<mongo, file>>

SpecGrant == Init /\ [][NextGrant]_vars

\* The ranks a caller of each rank may grant.
CanGrantOf == [owner |-> {"admin", "moderator", "vip", "member"},
               admin |-> {"moderator", "vip", "member"},
               moderator |-> {}, vip |-> {}, member |-> {}]

C14_ReservedRanksFixed ==
    /\ OWNER_USERNAME \in DOMAIN users /\ users[OWNER_USERNAME].rank = "owner"
    /\ "admin" \in DOMAIN users /\ users["admin"].rank = "admin"

\* C36: a grant_rank whose caller does not rank strictly above the target (the
\* caller's rank taken where the handler's rank and the user directory agree
\* on it) leaves the target's rank in the user directory as it was.
C36_GrantNeedsHigherRank ==
    [][\A c \in Conns :
          ( /\ cmd'.op = "grant_rank" /\ cmd'.conn = c
            /\ currentUser[c] # None
            /\ userRank[c] = DirectoryRank(currentUser[c][1])
            /\ cmd'.arg.targetUser \in DOMAIN users
            /\ ~StrictlyAbove(userRank[c], users[cmd'.arg.targetUser].rank) )
          => users'[cmd'.arg.targetUser].rank = users[cmd'.arg.targetUser].rank]_vars

(***************************************************************************)
(* The owner rank: the owner, the seeded admin, an account made by         *)
(* register and one made by login sign in on two connections, and every    *)
(* signed-in caller asks for the owner rank and for the admin rank, for    *)
(* itself and for the others.                                              *)
(***************************************************************************)
OwnerAccounts == {<<OWNER_USERNAME, ADMIN_PASSWORD>>, <<"admin", ADMIN_PASSWORD>>,
                  <<"eve", "pass">>}
OwnerTargets == {OWNER_USERNAME, "bob", "eve"}
OwnerRanks == {"owner", "admin"}

NextOwner ==
    \/ \E c \in Clients : Connect(c) /\ UNCHANGED <<mongo, file>>
    \/ \E c \in Clients, a \in OwnerAccounts : Login(c, a[1], a[2]) /\ UNCHANGED <<mongo, file>>
    \/ \E u \in {OWNER_USERNAME, "bob"} : Register("c2", u, "pass") /\ UNCHANGED <<mongo, file>>
    \/ \E c \in Clients : Logout(c) /\ UNCHANGED <<mongo, file>>
    \/ \E c \in Clients, t \in OwnerTargets, r \in OwnerRanks, pw \in Secrets :
          GrantRank(c, t, r, pw) /\ UNCHANGED <<mongo, file>>

SpecOwner == Init /\ [][NextOwner]_vars

\* C40: no user other than the owner account holds the rank owner: every
\* entry of the user directory and every session with the rank owner has the
\* owner's username, and so has every connection that acts as owner.
C40_OnlyOwnerHoldsOwner ==
    /\ \A u \in DOMAIN users : users[u].rank = "owner" => u = OWNER_USERNAME
    /\ \A sid \in DOMAIN sessions :
          sessions[sid].rank = "owner" => sessions[sid].username = OWNER_USERNAME
    /\ \A c \in Conns :
          (currentUser[c] # None /\ userRank[c] = "owner")
          => currentUser[c] = Some(OWNER_USERNAME)

\* The owner has just asked for the owner rank for a registered account that
\* is signed in on the other connection, and was told it cannot be granted.
C40_Witness ==
    /\ Handled("grant_rank")
    /\ userRank[cmd.conn] = "owner"
    /\ cmd.arg.targetUser = "bob" /\ cmd.arg.newRank = "owner"
    /\ Emitted(cmd.conn, "error")
    /\ "bob" \in DOMAIN users
    /\ \E sid \in DOMAIN sessions : sessions[sid].username = "bob"

\* The commands that ask for the shared admin secret.
ModerationCommands == {"clear_messages", "ban_user", "unban_user", "delete_room", "grant_rank"}

\* The handler refused the caller for the secret.
RefusedForSecret(c) ==
    \E i \in 1..Len(out') :
        out'[i] = Event(c, "error", [message |-> "Incorrect password"])

\* C22: the shared admin secret is required only of callers whose rank is
\* neither admin nor owner: a moderation command (clear_messages, ban_user,
\* unban_user, delete_room, grant_rank) of an admin or owner is never rejected
\* for a missing or wrong secret.
C22_SecretOnlyBelowAdmin ==
    [][\A c \in Conns :
         (/\ cmd'.op \in ModerationCommands
          /\ cmd'.conn = c
          /\ userRank[c] \in {"admin", "owner"})
         => ~RefusedForSecret(c)]_vars

\* The duration a sanction lasts, in minutes, for a duration string: N
\* minutes, hours or days for digits followed by m, h or d, else the default.
StatedMinutes(s) ==
    IF ~durationMatches(s, {"m", "h", "d"}) THEN 10
    ELSE LET n == parseIntDigits(SubSeq(s, 1, Len(s) - 1))
         IN  IF s[Len(s)] = "m" THEN n
             ELSE IF s[Len(s)] = "h" THEN 60 * n
             ELSE 24 * 60 * n

\* C30: for a duration string matching ^(\d+)([mhd])$ a ban expires N minutes,
\* hours or days after it is issued, according to the unit, and any other
\* string gives the default of 10 minutes; ban_user and mute_user compute the
\* same duration for the same string.
C30_DurationParsing ==
    [][\A c \in Conns :
         /\ (cmd'.op = "ban_user" /\ cmd'.conn = c /\ Applied(c, "user_banned"))
               => bans'[currentRoom[c][1]][cmd'.arg.bannedUser].expiresAt
                     = now + StatedMinutes(cmd'.arg.duration)
         /\ (cmd'.op = "mute_user" /\ cmd'.conn = c /\ Applied(c, "user_muted"))
               => mutes'[muteKeyOf(cmd'.arg.mutedUser, currentRoom[c][1])].expiresAt
                     = now + StatedMinutes(cmd'.arg.duration)]_vars
(***************************************************************************)
(* Lifting a ban: the owner makes a second account an admin and bans it    *)
(* from the default room; the owner or the seeded admin lifts the ban.     *)
(***************************************************************************)
\* The accounts the second client signs in to.
UnbanAccounts == {<<"bob", "pass">>, <<"admin", ADMIN_PASSWORD>>}

NextUnban ==
    \/ \E c \in Clients : Connect(c) /\ UNCHANGED <<mongo, file>>
    \/ Login("c1", OWNER_USERNAME, ADMIN_PASSWORD) /\ UNCHANGED <<mongo, file>>
    \/ \E a \in UnbanAccounts : Login("c2", a[1], a[2]) /\ UNCHANGED <<mongo, file>>
    \/ \E c \in Clients : JoinRoom(c, DefaultRoom, "") /\ UNCHANGED <<mongo, file>>
    \/ \E r \in {"admin", "member"} : GrantRank("c1", "bob", r, "") /\ UNCHANGED <<mongo, file>>
    \/ \E d \in BanDurations : BanUser("c1", "bob", d, "") /\ UNCHANGED <<mongo, file>>
    \/ \E c \in Clients, pw \in Secrets : UnbanUser(c, "bob", pw) /\ UNCHANGED <<mongo, file>>
    \/ now < MaxTime /\ Tick /\ UNCHANGED <<mongo, file>>

SpecUnban == Init /\ [][NextUnban]_vars

\* C23: unban_user enforces the same strict-rank-above rule as ban_user: it is
\* rejected, and the ban record left in place, whenever the caller's rank is
\* not strictly higher than the target's rank, unless the caller is owner.
\* (Stated for a caller whose connection acts with the rank the user directory
\* records for it, and a target that has a ban record in the caller's room.)
C23_UnbanNeedsHigherRank ==
    [][\A c \in Conns :
         (/\ cmd'.op = "unban_user" /\ cmd'.conn = c
          /\ currentUser[c] # None /\ currentRoom[c] # None
          /\ userRank[c] = DirectoryRank(currentUser[c][1])
          /\ currentRoom[c][1] \in DOMAIN bans
          /\ cmd'.arg.unbannedUser \in DOMAIN bans[currentRoom[c][1]]
          /\ ~StrictlyAbove(userRank[c], DirectoryRank(cmd'.arg.unbannedUser)))
         => /\ bans' = bans
            /\ ~Applied(c, "user_unbanned")]_vars
(***************************************************************************)
(* Voice and video: an admin and a member in the default room; the admin   *)
(* mutes the member, and both ask for the voice and the video channel with *)
(* their own or another name and rank in the payload.                      *)
(***************************************************************************)
MediaNames == {"bob", "eve"}
MediaRanks == {"member", "vip"}

NextMedia ==
    \/ \E c \in Clients : Connect(c) /\ UNCHANGED <<mongo, file>>
    \/ \E c \in Clients : Login(c, AccountOf[c][1], AccountOf[c][2]) /\ UNCHANGED <<mongo, file>>
    \/ \E c \in Clients : JoinRoom(c, DefaultRoom, "") /\ UNCHANGED <<mongo, file>>
    \/ MuteUser("c1", "bob", <<"1", "m">>) /\ UNCHANGED <<mongo, file>>
    \/ \E c \in Clients, u \in MediaNames : JoinVoice(c, DefaultRoom, u) /\ UNCHANGED <<mongo, file>>
    \/ \E c \in Clients, u \in MediaNames, r \in MediaRanks :
          JoinVideo(c, DefaultRoom, u, r) /\ UNCHANGED <<mongo, file>>
    \/ now < MaxTime /\ Tick /\ UNCHANGED <<mongo, file>>

SpecMedia == Init /\ [][NextMedia]_vars

\* The handler put the caller into the channel, or told the channel of it.
EnteredChannel(c, channel, ev) ==
    \/ channel \in joined'[c] \ joined[c]
    \/ \E i \in 1..Len(out') : out'[i].ev = ev

\* C24: joining the video sub-channel requires the canVideo permission of the
\* caller's actual rank: a connection whose session rank is member never
\* becomes a member of video:<room> nor causes a user_joined_video event,
\* whatever payload it sends.
C24_VideoNeedsRank ==
    [][\A c \in Conns :
         (/\ cmd'.op = "join_video" /\ cmd'.conn = c
          /\ c \in DOMAIN sessions
          /\ sessions[c].rank = "member"
          /\ userRank[c] = "member")
         => ~EnteredChannel(c, videoChannel(cmd'.arg.roomName), "user_joined_video")]_vars

\* C25: join_voice and join_video require that the caller is not currently
\* muted in that room: a connection whose user has an active mute in room R
\* never joins voice:R or video:R, whatever username it puts in the payload.
C25_MutedCannotJoinMedia ==
    [][\A c \in Conns :
         (/\ cmd'.op \in {"join_voice", "join_video"} /\ cmd'.conn = c
          /\ currentUser[c] # None
          /\ activeMute(mutes, now, currentUser[c][1], cmd'.arg.roomName))
         => /\ ~EnteredChannel(c, voiceChannel(cmd'.arg.roomName), "user_joined_voice")
            /\ ~EnteredChannel(c, videoChannel(cmd'.arg.roomName), "user_joined_video")]_vars
(***************************************************************************)
(* Several devices: the owner on one connection, a second account on       *)
(* another, and a third connection that signs in to the second account or  *)
(* to a third one; the owner grants the second account ranks, and the      *)
(* accounts exchange private messages and ask for the private history.     *)
(***************************************************************************)
DeviceAccounts == {<<"bob", "pass">>, <<"eve", "word">>}
DeviceRecipients == {OWNER_USERNAME, "bob"}

NextDevices ==
    \/ \E c \in PMClients : Connect(c) /\ UNCHANGED <<mongo, file>>
    \/ \E c \in PMClients : Disconnect(c) /\ UNCHANGED <<mongo, file>>
    \/ Login("c1", OWNER_USERNAME, ADMIN_PASSWORD) /\ UNCHANGED <<mongo, file>>
    \/ Login("c2", "bob", "pass") /\ UNCHANGED <<mongo, file>>
    \/ \E a \in DeviceAccounts : Login("c3", a[1], a[2]) /\ UNCHANGED <<mongo, file>>
    \/ \E r \in {"moderator", "member"} : GrantRank("c1", "bob", r, "") /\ UNCHANGED <<mongo, file>>
    \/ \E c \in {"c1", "c3"}, to \in DeviceRecipients :
            Len(privateMessages) < MaxMsgs /\ PrivateMessage(c, to, "hi") /\ UNCHANGED <<mongo, file>>
    \/ \E c \in PMClients : GetPrivateHistory(c) /\ UNCHANGED <<mongo, file>>

SpecDevices == Init /\ [][NextDevices]_vars

\* The connection got the private message just sent, as its recipient.
GotMessage(sid) ==
    \E i \in 1..Len(out') :
        /\ out'[i].to = sid
        /\ out'[i].ev = "private_message"
        /\ ~out'[i].data.adminView

\* C26: a private message is delivered to the recipient's live session(s):
\* every connected session whose username is the recipient receives the
\* private_message event, also when the recipient has several sessions.
C26_AllRecipientSessions ==
    [][\A c \in Conns :
         (/\ cmd'.op = "private_message" /\ cmd'.conn = c
          /\ privateMessages' # privateMessages
          /\ currentUser[c] # Some(cmd'.arg.recipient))
         => \A sid \in DOMAIN sessions \cap live :
               sessions[sid].username = cmd'.arg.recipient => GotMessage(sid)]_vars

\* The messages the cascade rule shows a viewer of a rank.
VisibleTo(viewer, viewerRank) ==
    SelectSeq(privateMessages,
              LAMBDA msg : \/ msg.from = viewer
                           \/ msg.to = viewer
                           \/ Level[viewerRank] < Level[msg.fromRank])

\* C27: get_private_history returns to a viewer exactly those retained private
\* messages of which the viewer is the sender or the recipient, or whose sender
\* rank is strictly lower than the viewer's current rank; the retained private
\* history never exceeds 100 messages.  (The viewer's current rank is the one
\* that the user directory and the viewer's session record agree on.)
C27_PrivateHistoryFilter ==
    [][/\ Len(privateMessages') <= 100
       /\ \A c \in Conns :
            (/\ cmd'.op = "get_private_history" /\ cmd'.conn = c
             /\ currentUser[c] # None
             /\ c \in DOMAIN sessions
             /\ sessions[c].username = currentUser[c][1]
             /\ sessions[c].rank = DirectoryRank(currentUser[c][1]))
            => out' = ToSocket(c, "private_history",
                               [messages |-> VisibleTo(currentUser[c][1],
                                                       sessions[c].rank)])]_vars
(***************************************************************************)
(* Registration: two connections register short, reserved, fresh and taken *)
(* names with short and long passwords, sign out and reconnect.            *)
(***************************************************************************)
RegisterNames == {"", "al", "bob", "eve", "admin", OWNER_USERNAME}
RegisterPasswords == {"", "abc", "pass", "word"}

NextRegister ==
    \/ \E c \in Clients : Connect(c) /\ UNCHANGED <<mongo, file>>
    \/ \E c \in Clients : Disconnect(c) /\ UNCHANGED <<mongo, file>>
    \/ \E c \in Clients : Logout(c) /\ UNCHANGED <<mongo, file>>
    \/ \E c \in Clients, u \in RegisterNames, p \in RegisterPasswords :
          Register(c, u, p) /\ UNCHANGED <<mongo, file>>

SpecRegister == Init /\ [][NextRegister]_vars

\* The names no one may register.
ReservedNames == {OWNER_USERNAME, "admin"}

\* C21: register succeeds only for a username of length >= 3 that is not
\* reserved and not already in the user directory, with a password of length
\* >= 4; on success it creates a user of rank member and an active session; on
\* any failure the user directory and the sessions are unchanged, so that an
\* existing user's password and rank are never overwritten by register.
C21_RegisterContract ==
    [][\A c \in Conns :
         (cmd'.op = "register" /\ cmd'.conn = c)
         => LET u == cmd'.arg.username
                p == cmd'.arg.password
            IN  IF Applied(c, "auth_success")
                THEN /\ Len(u) >= 3 /\ Len(p) >= 4
                     /\ u \notin ReservedNames
                     /\ u \notin DOMAIN users
                     /\ DOMAIN users' = DOMAIN users \cup {u}
                     /\ users'[u] = [password |-> p, rank |-> "member"]
                     /\ \A v \in DOMAIN users : users'[v] = users[v]
                     /\ c \in DOMAIN sessions'
                     /\ sessions'[c].username = u /\ sessions'[c].rank = "member"
                     /\ currentUser'[c] = Some(u)
                ELSE /\ Applied(c, "auth_error")
                     /\ users' = users
                     /\ sessions' = sessions]_vars

\* A name registered earlier was just asked for again, with another password
\* of sufficient length, and the request was refused.
C21_Witness ==
    /\ cmd.op = "register"
    /\ cmd.arg.username = "bob" /\ cmd.arg.password = "word"
    /\ Emitted(cmd.conn, "auth_error")
    /\ "bob" \in DOMAIN users /\ users["bob"].password = "pass"
    /\ \E sid \in DOMAIN sessions : sessions[sid].username = "bob"

(***************************************************************************)
(* Expiry of a mute: the admin mutes the ordinary user in the default room *)
(* for one minute or for the default duration, and again while a mute is   *)
(* stored; the user chats only while a mute record for them is stored, and *)
(* nobody unmutes.                                                         *)
(***************************************************************************)
NextExpiry ==
    \/ \E c \in Clients : Connect(c) /\ UNCHANGED <<mongo, file>>
    \/ \E c \in Clients : Login(c, AccountOf[c][1], AccountOf[c][2]) /\ UNCHANGED <<mongo, file>>
    \/ \E c \in Clients : JoinRoom(c, "Main", "") /\ UNCHANGED <<mongo, file>>
    \/ \E c \in Clients, d \in MuteDurations : MuteUser(c, "bob", d) /\ UNCHANGED <<mongo, file>>
    \/ \E c \in Clients :
          /\ currentUser[c] = Some("bob")
          /\ muteKeyOf("bob", "Main") \in DOMAIN mutes
          /\ HistoryHasRoom(c)
          /\ ChatMessage(c, "hi")
          /\ UNCHANGED <<mongo, file>>
    \/ now < MaxTime /\ Tick /\ UNCHANGED <<mongo, file>>

SpecExpiry == Init /\ [][NextExpiry]_vars

\* C31: a chat message of a user for whom a mute record of the room is stored
\* is refused while now < expiresAt and, from the moment now >= expiresAt, is
\* appended and broadcast as for a user who was never muted, though nobody
\* unmuted them, and the user is not muted afterwards; a successful mute_user
\* stores a record that expires the stated duration from now, whatever record
\* of the same user and room was stored before.
C31_LazyExpiry ==
    [][\A c \in Conns, R \in RoomNames :
          /\ ( /\ cmd'.op = "chat message" /\ cmd'.conn = c
               /\ currentUser[c] # None /\ currentRoom[c] = Some(R)
               /\ R \in DOMAIN rooms
               /\ muteKeyOf(currentUser[c][1], R) \in DOMAIN mutes )
             => IF now < mutes[muteKeyOf(currentUser[c][1], R)].expiresAt
                THEN rooms' = rooms /\ NothingToOthers(c)
                ELSE /\ AppendedTo(R, currentUser[c][1])
                     /\ BroadcastIn(R, c)
                     /\ ~activeMute(mutes', now', currentUser[c][1], R)
          /\ ( /\ cmd'.op = "mute_user" /\ cmd'.conn = c
               /\ currentUser[c] # None /\ currentRoom[c] = Some(R)
               /\ \E i \in 1..Len(out') : out'[i].ev = "user_muted" )
             => mutes'[muteKeyOf(cmd'.arg.mutedUser, R)]
                   = [roomName |-> R,
                      expiresAt |-> now + StatedMinutes(cmd'.arg.duration),
                      mutedBy |-> currentUser[c][1]]]_vars

\* The user, who chats only while a mute record for them is stored, has just
\* had a chat message appended to the history of the room: the mute had run
\* out, and the access removed its record.
C31_Witness ==
    /\ Handled("chat message")
    /\ currentUser[cmd.conn] = Some("bob")
    /\ currentRoom[cmd.conn] = Some("Main")
    /\ now >= 1
    /\ muteKeyOf("bob", "Main") \notin DOMAIN mutes
    /\ rooms["Main"].messages # <<>>
    /\ rooms["Main"].messages[Len(rooms["Main"].messages)].username = "bob"
    /\ \E x \in live \ {cmd.conn} : "Main" \in joined[x]
(***************************************************************************)
(* Commands of a connection that is not signed in: an ordinary user signs  *)
(* in and moves between the rooms; on the second connection the admin      *)
(* signs in, creates and joins rooms and logs out, and that connection     *)
(* sends every other command of the room protocol while it has no session. *)
(***************************************************************************)
AnonAccountOf == [c1 |-> <<"bob", "pass">>, c2 |-> <<"admin", ADMIN_PASSWORD>>]

\* The connection has no session record.
NotSignedIn(c) == c \notin DOMAIN sessions

NextAnon ==
    \/ \E c \in Clients : Connect(c) /\ UNCHANGED <<mongo, file>>
    \/ \E c \in Clients : Login(c, AnonAccountOf[c][1], AnonAccountOf[c][2])
                            /\ UNCHANGED <<mongo, file>>
    \/ Logout("c2") /\ UNCHANGED <<mongo, file>>
    \/ CreateRoom("c2", "Lounge", "") /\ UNCHANGED <<mongo, file>>
    \/ \E c \in Clients, r \in RoomNames : JoinRoom(c, r, "") /\ UNCHANGED <<mongo, file>>
    \/ NotSignedIn("c2") /\ LeaveRoom("c2") /\ UNCHANGED <<mongo, file>>
    \/ NotSignedIn("c2") /\ ChatMessage("c2", "hi") /\ UNCHANGED <<mongo, file>>
    \/ NotSignedIn("c2") /\ ShareFile("c2", "a.png") /\ UNCHANGED <<mongo, file>>
    \/ NotSignedIn("c2") /\ PrivateMessage("c2", "bob", "hi") /\ UNCHANGED <<mongo, file>>
    \/ NotSignedIn("c2") /\ ClearMessages("c2", ADMIN_PASSWORD) /\ UNCHANGED <<mongo, file>>
    \/ NotSignedIn("c2") /\ BanUser("c2", "bob", <<"1", "h">>, ADMIN_PASSWORD)
                         /\ UNCHANGED <<mongo, file>>
    \/ NotSignedIn("c2") /\ UnbanUser("c2", "bob", ADMIN_PASSWORD) /\ UNCHANGED <<mongo, file>>
    \/ NotSignedIn("c2") /\ MuteUser("c2", "bob", <<"1", "h">>) /\ UNCHANGED <<mongo, file>>
    \/ NotSignedIn("c2") /\ UnmuteUser("c2", "bob") /\ UNCHANGED <<mongo, file>>
    \/ NotSignedIn("c2") /\ DeleteRoom("c2", "Lounge", ADMIN_PASSWORD)
                         /\ UNCHANGED <<mongo, file>>
    \/ NotSignedIn("c2") /\ GrantRank("c2", "bob", "vip", ADMIN_PASSWORD)
                         /\ UNCHANGED <<mongo, file>>

SpecAnon == Init /\ [][NextAnon]_vars

\* The commands of the room protocol that are answered with an error when the
\* connection is not signed in, and those that are then ignored.
RejectedCommands == {"create_room", "join_room"}
IgnoredCommands ==
    {"leave_room", "chat message", "share_file", "private_message"}
        \cup ModerationCommands \cup {"mute_user", "unmute_user"}

\* C34: a command of the room protocol sent on a connection that has no
\* session record (it never signed in, or it logged out) changes no room, no
\* session, no ban, no mute, no user and no membership of a socket.io room;
\* create_room and join_room are answered with the error 'Not authenticated',
\* every other command with nothing at all.
C34_UnauthenticatedCannotAct ==
    [][\A c \in Conns :
          ( /\ cmd'.conn = c
            /\ c \notin DOMAIN sessions
            /\ cmd'.op \in RejectedCommands \cup IgnoredCommands )
          => /\ UNCHANGED <<users, rooms, sessions, sessionOrder, bans, mutes,
                           privateMessages, joined>>
             /\ currentRoom'[c] = None
             /\ IF cmd'.op \in RejectedCommands
                THEN out' = ErrorTo(c, "Not authenticated")
                ELSE out' = <<>>]_vars

\* The connection that had signed in as the admin has logged out, while bob
\* is in the default room, and has just sent ban_user: nothing came of it.
C34_Witness ==
    /\ cmd.op = "ban_user" /\ cmd.conn = "c2"
    /\ "c2" \in live /\ "c2" \notin DOMAIN sessions
    /\ userRank["c2"] = "admin"
    /\ \E sid \in DOMAIN sessions :
          sessions[sid].username = "bob" /\ sessions[sid].roomName = Some("Main")
    /\ bans = <<>>
    /\ out = <<>>
(***************************************************************************)
(* Signing in again: two clients sign in, register, create, join and leave *)
(* rooms and log out; a client may sign in or register while it is in a    *)
(* room.                                                                   *)
(***************************************************************************)
NextRelogin ==
    \/ \E c \in Clients : Connect(c) /\ UNCHANGED <<mongo, file>>
    \/ \E c \in Clients : Login(c, AccountOf[c][1], AccountOf[c][2]) /\ UNCHANGED <<mongo, file>>
    \/ \E c \in Clients : Register(c, "carol", "word") /\ UNCHANGED <<mongo, file>>
    \/ \E c \in Clients : Logout(c) /\ UNCHANGED <<mongo, file>>
    \/ \E c \in Clients : CreateRoom(c, "Lounge", "") /\ UNCHANGED <<mongo, file>>
    \/ \E c \in Clients, r \in RoomNames : JoinRoom(c, r, "") /\ UNCHANGED <<mongo, file>>
    \/ \E c \in Clients : HistoryHasRoom(c) /\ LeaveRoom(c) /\ UNCHANGED <<mongo, file>>

SpecRelogin == Init /\ [][NextRelogin]_vars

\* C35: for every open connection that is signed in, the room its handler
\* holds as current room, which is the room it sends to, is the room its
\* session record holds, and its socket is in that room and in no other.
C35_CurrentRoomMatchesSession ==
    \A c \in live :
        currentUser[c] # None
            => /\ c \in DOMAIN sessions
               /\ sessions[c].roomName = currentRoom[c]
               /\ joined[c] = {currentRoom[c][i] : i \in 1..Len(currentRoom[c])}
(***************************************************************************)
(* Rooms with a password: the admin creates the second room with or        *)
(* without a password, joins, leaves and deletes rooms; the ordinary user  *)
(* joins and leaves rooms and never sends a password.  Each signs in once. *)
(***************************************************************************)
NextSecretRoom ==
    \/ \E c \in Clients : Connect(c) /\ UNCHANGED <<mongo, file>>
    \/ \E c \in Clients :
          /\ currentUser[c] = None
          /\ Login(c, AccountOf[c][1], AccountOf[c][2])
          /\ UNCHANGED <<mongo, file>>
    \/ \E pw \in RoomPasswords : CreateRoom("c1", "Lounge", pw) /\ UNCHANGED <<mongo, file>>
    \/ \E r \in RoomNames, pw \in RoomPasswords : JoinRoom("c1", r, pw) /\ UNCHANGED <<mongo, file>>
    \/ \E r \in RoomNames : JoinRoom("c2", r, "") /\ UNCHANGED <<mongo, file>>
    \/ \E c \in Clients : HistoryHasRoom(c) /\ LeaveRoom(c) /\ UNCHANGED <<mongo, file>>
    \/ DeleteRoom("c1", "Lounge", "") /\ UNCHANGED <<mongo, file>>

SpecSecretRoom == Init /\ [][NextSecretRoom]_vars

\* The socket of the connection is in the room, which has a password.
InProtected(inRooms, rs, c, R) ==
    /\ R \in DOMAIN rs
    /\ rs[R].password # ""
    /\ R \in inRooms[c]

\* C38: a socket comes to be in a room that has a password (it is in the
\* room after a step and was not before, or the room did not have that
\* password before) only by the step in which its connection creates the room
\* or joins it with the password the room has.
C38_ProtectedRoomNeedsPassword ==
    [][\A c \in Conns, R \in RoomNames :
          ( /\ c \in live'
            /\ InProtected(joined', rooms', c, R)
            /\ ~( /\ InProtected(joined, rooms, c, R)
                  /\ rooms[R].password = rooms'[R].password ) )
          => /\ cmd'.conn = c
             /\ cmd'.op \in {"create_room", "join_room"}
             /\ cmd'.arg.roomName = R
             /\ cmd'.op = "join_room" => cmd'.arg.password = rooms'[R].password]_vars
(***************************************************************************)
(* Mute keys: room names and usernames that contain the separator of the   *)
(* mute key.  The admin creates the rooms 'y' and 'x-y' and mutes and      *)
(* unmutes the names 'ann' and 'ann-x' in the room it is in; the user ann  *)
(* joins the rooms and chats.                                              *)
(***************************************************************************)
KeyRooms == {"y", "x-y"}
KeyTargets == {"ann", "ann-x"}
KeyAccountOf == [c1 |-> <<"admin", ADMIN_PASSWORD>>, c2 |-> <<"ann", "pass">>]

NextMuteKey ==
    \/ \E c \in Clients : Connect(c) /\ UNCHANGED <<mongo, file>>
    \/ \E c \in Clients :
          /\ currentUser[c] = None
          /\ Login(c, KeyAccountOf[c][1], KeyAccountOf[c][2])
          /\ UNCHANGED <<mongo, file>>
    \/ \E r \in KeyRooms : CreateRoom("c1", r, "") /\ UNCHANGED <<mongo, file>>
    \/ \E c \in Clients, r \in KeyRooms : JoinRoom(c, r, "") /\ UNCHANGED <<mongo, file>>
    \/ \E t \in KeyTargets : MuteUser("c1", t, <<"1", "h">>) /\ UNCHANGED <<mongo, file>>
    \/ \E t \in KeyTargets : UnmuteUser("c1", t) /\ UNCHANGED <<mongo, file>>
    \/ HistoryHasRoom("c2") /\ ChatMessage("c2", "hi") /\ UNCHANGED <<mongo, file>>

SpecMuteKey == Init /\ [][NextMuteKey]_vars

\* The chat message was refused because its sender is muted.
RefusedAsMuted(c) ==
    /\ rooms' = rooms
    /\ \E i \in 1..Len(out') : out'[i].to = c /\ out'[i].ev = "system_message"

\* C39: a chat message is refused as muted only if the mute that silences
\* its sender was issued in the sender's room: the record found for the
\* sender and the room names that room.
C39_MuteScopedToPair ==
    [][\A c \in Conns, R \in KeyRooms :
          ( /\ cmd'.op = "chat message" /\ cmd'.conn = c
            /\ currentUser[c] # None /\ currentRoom[c] = Some(R)
            /\ RefusedAsMuted(c) )
          => /\ muteKeyOf(currentUser[c][1], R) \in DOMAIN mutes
             /\ mutes[muteKeyOf(currentUser[c][1], R)].roomName = R]_vars
(***************************************************************************)
(* src/server.js: two clients sign in and create a room while the database *)
(* connection comes up and goes down; their handlers interleave at every   *)
(* await.                                                                  *)
(***************************************************************************)
ServerPasswords == {ADMIN_PASSWORD, "oops"}

NextServer ==
    \/ /\ \E c \in Clients : Connect(c)
       /\ UNCHANGED <<mongo, file>>
    \/ connectToMongoDB /\ UNCHANGED file
    \/ mongoDisconnected /\ UNCHANGED file
    \/ initializeDefaultData /\ UNCHANGED file
    \/ \E c \in Clients, pw \in ServerPasswords : ServerLogin(c, "admin", pw) /\ UNCHANGED file
    \/ \E c \in Clients : LoginAfterFindOne(c) /\ UNCHANGED file
    \/ \E c \in Clients : LoginAfterSave(c) /\ UNCHANGED file
    \/ \E c \in Clients : LoginAfterSessionCreate(c) /\ UNCHANGED file
    \/ \E c \in Clients : ServerCreateRoom(c, "Lounge", "") /\ UNCHANGED file
    \/ \E c \in Clients : CreateRoomAfterFindOne(c) /\ UNCHANGED file
    \/ \E c \in Clients : CreateRoomAfterCreate(c) /\ UNCHANGED file

SpecServer == Init /\ [][NextServer]_vars

\* C16: when two connections issue create_room for the same new room name and
\* their handlers interleave, at most one of them succeeds; the other gets
\* 'Room already exists' and creates no room in any store.  With the database
\* connected throughout, a create_room handler that runs or resumes when the
\* name is already in the Room collection neither completes with joined_room
\* nor creates a room.
C16_CreateAtomicPerName ==
    [][\A c \in Conns, R \in RoomNames :
          ( /\ isMongoConnected /\ isMongoConnected'
            /\ cmd'.conn = c
            /\ cmd'.op \in {"create_room", "create_room: Room.findOne",
                            "create_room: Room.create"}
            /\ cmd'.arg.roomName = R
            /\ R \in DOMAIN Room )
          => /\ ~Applied(c, "joined_room")
             /\ rooms' = rooms /\ Room' = Room]_vars

\* The password a login is compared with: the one stored for the username in
\* the store the handler reads, the database when it is connected.
StoredPassword(username) ==
    IF isMongoConnected
    THEN IF username \in DOMAIN User THEN Some(User[username].password) ELSE None
    ELSE IF username \in DOMAIN users THEN Some(users[username].password) ELSE None

\* C20: a login whose password does not match the password stored for an
\* existing username fails with an auth error and leaves the connection
\* unauthenticated: no session is registered and the connection gains no rank.
C20_WrongPasswordFails ==
    [][\A c \in Conns :
          ( /\ cmd'.conn = c
            /\ cmd'.op \in {"login", "login: User.findOne"}
            /\ awaiting'[c] = None
            /\ StoredPassword(cmd'.arg.username) # None
            /\ StoredPassword(cmd'.arg.username) # Some(cmd'.arg.password) )
          => /\ Applied(c, "auth_error")
             /\ currentUser'[c] = currentUser[c]
             /\ userRank'[c] = userRank[c]
             /\ sessions' = sessions /\ Session' = Session]_vars

(***************************************************************************)
(* src/server.js: one client signs in and joins rooms, one of them created *)
(* by a second client, while the database connection comes up and goes     *)
(* down.                                                                   *)
(***************************************************************************)
NextServerJoin ==
    \/ \E c \in Clients : Connect(c) /\ UNCHANGED <<mongo, file>>
    \/ connectToMongoDB /\ UNCHANGED file
    \/ mongoDisconnected /\ UNCHANGED file
    \/ initializeDefaultData /\ UNCHANGED file
    \/ ServerLogin("c1", "admin", ADMIN_PASSWORD) /\ UNCHANGED file
    \/ LoginAfterFindOne("c1") /\ UNCHANGED file
    \/ LoginAfterSave("c1") /\ UNCHANGED file
    \/ LoginAfterSessionCreate("c1") /\ UNCHANGED file
    \/ ~isMongoConnected /\ ServerLogin("c2", "bob", "pass") /\ UNCHANGED file
    \/ ServerCreateRoom("c2", "Lounge", "") /\ UNCHANGED file
    \/ CreateRoomAfterFindOne("c2") /\ UNCHANGED file
    \/ CreateRoomAfterCreate("c2") /\ UNCHANGED file
    \/ \E r \in RoomNames : ServerJoinRoom("c1", r, "") /\ UNCHANGED file
    \/ JoinRoomAfterFindOne("c1") /\ UNCHANGED file
    \/ \E found \in BOOLEAN : JoinRoomAfterBanFindOne("c1", found) /\ UNCHANGED file
    \/ JoinRoomAfterUpdateOne("c1") /\ UNCHANGED file
    \/ JoinRoomAfterMessageFind("c1") /\ UNCHANGED file
    \/ JoinRoomAfterCount("c1") /\ UNCHANGED file

SpecServerJoin == Init /\ [][NextServerJoin]_vars

\* The steps of the join_room handler.
JoinRoomSteps ==
    {"join_room", "join_room: Room.findOne", "join_room: Ban.findOne",
     "join_room: Session.updateOne", "join_room: Message.find",
     "join_room: Session.countDocuments"}

\* C28: no partial mutation on failure: whenever join_room answers the caller
\* with an error event, the caller's current room, its room membership and its
\* session record are exactly as before the command, also when a persistence
\* operation fails part-way through the handler.
C28_JoinErrorLeavesState ==
    [][\A c \in Conns :
          ( /\ cmd'.conn = c
            /\ cmd'.op \in JoinRoomSteps
            /\ Applied(c, "error") )
          => LET before == IF cmd'.op = "join_room" THEN entryState(c)
                           ELSE awaiting[c][1].data.entry
             IN  /\ currentRoom'[c] = before.currentRoom
                 /\ joined'[c] = before.joined
                 /\ (IF c \in DOMAIN sessions' THEN Some(sessions'[c]) ELSE None)
                        = before.session
                 /\ {doc \in Session' : doc.socketId = c} = before.documents]_vars

(***************************************************************************)
(* src/unnamed/part_002: two clients register, sign in and out, create,    *)
(* join and leave rooms, ask for the room list and disconnect.             *)
(***************************************************************************)
FileAccountOf == [c1 |-> <<"ann", "pass">>, c2 |-> <<"bob", "word">>]

\* socket.io never gives out a socket id twice: an id of the model is used
\* again only when no member list remembers it.
idIsFresh(c) == \A name \in DOMAIN fileRooms : ~isMember(fileRooms[name].members, c)

NextFile ==
    \/ \E c \in Clients : idIsFresh(c) /\ Connect(c) /\ UNCHANGED <<mongo, file>>
    \/ \E c \in Clients : FileDisconnect(c) /\ UNCHANGED <<closure, store, mongo>>
    \/ \E c \in Clients : FileRegister(c, FileAccountOf[c][1], FileAccountOf[c][2])
                            /\ UNCHANGED <<closure, store, mongo>>
    \/ \E c \in Clients : FileLogin(c, FileAccountOf[c][1], FileAccountOf[c][2])
                            /\ UNCHANGED <<closure, store, mongo>>
    \/ \E c \in Clients : FileLogout(c) /\ UNCHANGED <<closure, store, mongo>>
    \/ \E c \in Clients : FileGetRooms(c) /\ UNCHANGED <<closure, store, mongo>>
    \/ \E c \in Clients : FileCreateRoom(c, "Lounge", "") /\ UNCHANGED <<closure, store, mongo>>
    \/ \E c \in Clients, r \in RoomNames : FileJoinRoom(c, r, "")
                            /\ UNCHANGED <<closure, store, mongo>>
    \/ \E c \in Clients, r \in RoomNames : FileLeaveRoom(c, r)
                            /\ UNCHANGED <<closure, store, mongo>>

SpecFile == Init /\ [][NextFile]_vars

\* The number of live connections whose current room is the room.
LiveCount(liveNow, current, name) ==
    Cardinality({c \in liveNow : c \in DOMAIN current /\ current[c] = name})

\* The room a user_joined or user_left event of the last handler is about.
ReportedRoom ==
    IF cmd'.op = "disconnect" THEN userRooms[cmd'.conn] ELSE cmd'.arg.roomName

\* C29: the member count reported for a room (rooms_list, user_joined,
\* user_left) always equals the number of live connections whose current room
\* is that room; it never drifts, in particular not when a connection joins a
\* second room without leaving the first or disconnects afterwards.
C29_MemberCountIsLive ==
    [][\A i \in 1..Len(out') :
          /\ out'[i].ev = "rooms_list"
                => \A name \in DOMAIN out'[i].data :
                      out'[i].data[name].members = LiveCount(live', userRooms', name)
          /\ out'[i].ev \in {"user_joined", "user_left"}
                => out'[i].data.members = LiveCount(live', userRooms', ReportedRoom)]_vars

(***************************************************************************)
(* src/unnamed/part_002: bans of the default room.  Two clients register   *)
(* and join and leave the room; either bans the second account, for one    *)
(* minute or for one hour, and lifts the ban, while the clock advances and *)
(* the timers of the bans run.                                             *)
(***************************************************************************)
FileBanDurations == {<<"1">>, <<"1", "h">>}
MaxBanTimers == 2       \* no ban is issued while this many timers are pending

NextFileBan ==
    \/ \E c \in Clients : idIsFresh(c) /\ Connect(c) /\ UNCHANGED <<mongo, file>>
    \/ \E c \in Clients : FileRegister(c, FileAccountOf[c][1], FileAccountOf[c][2])
                            /\ UNCHANGED <<closure, store, mongo>>
    \/ \E c \in Clients : FileJoinRoom(c, "Main", "") /\ UNCHANGED <<closure, store, mongo>>
    \/ \E c \in Clients : FileLeaveRoom(c, "Main") /\ UNCHANGED <<closure, store, mongo>>
    \/ \E c \in Clients, d \in FileBanDurations :
          /\ Len(banTimers) < MaxBanTimers
          /\ FileBanUser(c, "Main", "bob", d, "ann")
          /\ UNCHANGED <<closure, store, mongo>>
    \/ \E c \in Clients : FileUnbanUser(c, "Main", "bob", "ann")
                            /\ UNCHANGED <<closure, store, mongo>>
    \/ \E i \in 1..MaxBanTimers : AutoUnban(i) /\ UNCHANGED <<closure, store, mongo>>
    \/ now < MaxTime /\ Tick /\ UNCHANGED <<mongo, file>>

SpecFileBan == Init /\ [][NextFileBan]_vars

\* The command handled bans or unbans the user in the room.
SanctionOf(roomName, username) ==
    \/ cmd'.op = "ban_user" /\ cmd'.arg.roomName = roomName
                            /\ cmd'.arg.bannedUser = username
    \/ cmd'.op = "unban_user" /\ cmd'.arg.roomName = roomName
                              /\ cmd'.arg.unbannedUser = username

\* C32: a ban record of a room that has not reached its own expiresAt stays
\* among the bans of the room through every step that is neither an unban nor
\* another ban of the same user in that room, the run of the timer of a ban
\* it replaced included, and while it stays a join_room of the banned user is
\* refused.
C32_ReplacingBanStays ==
    [][\A R \in DOMAIN fileRooms :
          /\ \A i \in 1..Len(fileRooms[R].bans) :
                ( /\ fileRooms[R].bans[i].expiresAt > now'
                  /\ R \in DOMAIN fileRooms'
                  /\ ~SanctionOf(R, fileRooms[R].bans[i].user) )
                => \E j \in 1..Len(fileRooms'[R].bans) :
                       fileRooms'[R].bans[j] = fileRooms[R].bans[i]
          /\ \A c \in Conns :
                ( /\ cmd'.op = "join_room" /\ cmd'.conn = c /\ cmd'.arg.roomName = R
                  /\ c \in DOMAIN userSessions
                  /\ \E i \in 1..Len(fileRooms[R].bans) :
                        /\ fileRooms[R].bans[i].user = userSessions[c]
                        /\ fileRooms[R].bans[i].expiresAt > now )
                => (fileRooms' = fileRooms /\ userRooms' = userRooms
                    /\ joined' = joined)]_vars

(***************************************************************************)
(* src/server.js: messages of one room.  Three clients sign in and join    *)
(* the default room while the database is down; once all are in the room  *)
(* and the database is up or down, two of them send chat messages and      *)
(* share files, and the third listens.  Nobody leaves.                     *)
(***************************************************************************)
ChatClients == {"c1", "c2", "c3"}
ChatSenders == {"c1", "c2"}
ChatAccountOf == [c1 |-> <<"admin", ADMIN_PASSWORD>>, c2 |-> <<"bob", "pass">>,
                  c3 |-> <<"eve", "word">>]
MaxDocs == 2        \* no message is sent while the collection holds this many documents

\* Every client is in the default room.
AllInMain == \A c \in ChatClients : c \in live /\ currentRoom[c] = Some("Main")

NextServerChat ==
    \/ \E c \in ChatClients : Connect(c) /\ UNCHANGED <<mongo, file>>
    \/ connectToMongoDB /\ UNCHANGED file
    \/ mongoDisconnected /\ UNCHANGED file
    \/ \E c \in ChatClients :
          /\ ~isMongoConnected /\ currentUser[c] = None
          /\ ServerLogin(c, ChatAccountOf[c][1], ChatAccountOf[c][2])
          /\ UNCHANGED file
    \/ \E c \in ChatClients :
          /\ ~isMongoConnected /\ currentRoom[c] = None
          /\ ServerJoinRoom(c, "Main", "")
          /\ UNCHANGED file
    \/ \E c \in ChatSenders :
          /\ AllInMain /\ Len(Message) < MaxDocs /\ HistoryHasRoom(c)
          /\ ServerChatMessage(c, "hi")
          /\ UNCHANGED file
    \/ \E c \in ChatSenders : ChatAfterCreate(c) /\ UNCHANGED file
    \/ \E c \in ChatSenders :
          /\ AllInMain /\ Len(Message) < MaxDocs /\ HistoryHasRoom(c)
          /\ ServerShareFile(c, "a.png")
          /\ UNCHANGED file
    \/ \E c \in ChatSenders : ShareFileAfterCreate(c) /\ UNCHANGED file

SpecServerChat == Init /\ [][NextServerChat]_vars

\* The handler that ran sent a chat message to the third client.
Delivered == \E i \in 1..Len(out') : out'[i].to = "c3" /\ out'[i].ev = "chat message"

\* C33: in a room whose members all receive every message, a message is the
\* newest of the room's stored history at the moment it is delivered, so
\* that every recipient receives the messages in the order of the history:
\* of the history in the database for a message saved there, of the history
\* in memory for a message stored there.
C33_DeliveryOrderIsHistoryOrder ==
    [][\A c \in ChatSenders :
          /\ ( /\ cmd'.conn = c
               /\ cmd'.op \in {"chat message: Message.create", "share_file: Message.create"}
               /\ isMongoConnected
               /\ Delivered )
             => LET stored == historyOf(messageFind(Message', "Main"))
                IN  stored # <<>> /\ stored[Len(stored)] = out'[1].data
          /\ ( /\ cmd'.conn = c
               /\ cmd'.op \in {"chat message", "share_file"}
               /\ Delivered )
             => LET stored == rooms'["Main"].messages
                IN  stored # <<>> /\ stored[Len(stored)] = out'[1].data]_vars
====
